---- MODULE Spec2Model ----
(***************************************************************************)
(* Model of the authorization subsystem of mykb: the token store           *)
(* (storage/tokens.go), the OAuth handlers (httpd/oauth.go) and the bearer *)
(* gate (httpd/server.go).                                                 *)
(*                                                                         *)
(* Every HTTP request is served by its own goroutine.  A worker of the     *)
(* model is such a goroutine; one step of a worker is the code of its      *)
(* handler up to and including one SQL statement (SQLite serialises the    *)
(* statements), followed by the local computation up to the next one.      *)
(* Time is the value time.Now().Unix() returns, in units of five minutes.  *)
(***************************************************************************)
EXTENDS Integers, Sequences, FiniteSets, TLC

(* ---- bounds of the model ---- *)
NumWorkers == 2
MaxTokens == 8
MaxTime == 2

(* ---- configuration (httpd.Config) and the CSRF lifetime, in time units ---- *)
CsrfExpiry == 1
CodeExpiry == 1
TokenExpiry == 2
RefreshTokenExpiry == 3

Workers == 1..NumWorkers

(* ---- token types (storage.TokenType) ---- *)
TokenAccess == "access"
TokenRefresh == "refresh"
TokenAuthCode == "auth_code"
TokenCSRF == "csrf"
TokenTypes == {TokenAccess, TokenRefresh, TokenAuthCode, TokenCSRF}

(* ---- raw secrets and digests ---- *)
\* The n-th value GenerateToken returns: 32 fresh random bytes, so every
\* call yields a value never seen before.
Tok(n) == "t" \o ToString(n)
RawTokens == {Tok(n) : n \in 1..MaxTokens}

\* SHA-256, hex encoded: deterministic, collision free on the values of the
\* model, and never equal to its input.
HashToken(token) == "sha256:" \o token

\* S256 of a PKCE verifier: SHA-256, base64url encoded.
HashPKCE(verifier) == "s256:" \o verifier

(* ---- bound data of a token: a Go map[string]string ---- *)
NilData == [k \in {} |-> ""]
\* Go's map index: the zero value "" for an absent key (or a nil map).
Get(data, key) == IF key \in DOMAIN data THEN data[key] ELSE ""

(* ---- the tokens table: hash is the PRIMARY KEY ---- *)
Row(typ, clientID, expiresAt, data) ==
    [type |-> typ, client_id |-> clientID, expires_at |-> expiresAt, data |-> data]

\* The row a SELECT / DELETE ... RETURNING of ValidateToken and ConsumeToken
\* matches: hash = ? AND type = ? AND expires_at > now.
\* (variant: expires_at >= now, a row still matches at its expiry time)
MatchesAtExpiry(store, hash, typ, t) ==
    /\ hash \in DOMAIN store
    /\ store[hash].type = typ
    /\ store[hash].expires_at >= t
Matches(store, hash, typ, t) ==
    /\ hash \in DOMAIN store
    /\ store[hash].type = typ
    /\ store[hash].expires_at > t

\* DELETE FROM tokens WHERE expires_at < now  (the sweep of StoreToken)
\* (variant: a row that expires at this very time goes too)
SweepExpiredInclusive(store, t) ==
    [h \in {x \in DOMAIN store : ~(store[x].expires_at <= t)} |-> store[h]]
SweepExpired(store, t) ==
    [h \in {x \in DOMAIN store : ~(store[x].expires_at < t)} |-> store[h]]

\* INSERT OR REPLACE INTO tokens ...
\* (variant: INSERT OR IGNORE, a stored row stays as it is)
InsertOrIgnore(store, hash, row) ==
    [h \in DOMAIN store \cup {hash} |-> IF h \in DOMAIN store THEN store[h] ELSE row]
InsertOrReplace(store, hash, row) ==
    [h \in DOMAIN store \cup {hash} |-> IF h = hash THEN row ELSE store[h]]

\* DELETE FROM tokens WHERE hash = ?
\* (variant: the statement deletes nothing)
DeleteNothing(store, hash) == store
\* (variant: every token of the row's client goes with it)
DeleteClientRows(store, hash) ==
    [h \in {x \in DOMAIN store :
               x # hash /\ (hash \in DOMAIN store => store[x].client_id # store[hash].client_id)}
        |-> store[h]]
DeleteRow(store, hash) ==
    [h \in DOMAIN store \ {hash} |-> store[h]]

\* ValidateToken: the result of the SELECT, store unchanged.
\* (variant: the type column is left out of the WHERE clause)
ValidateAnyType(store, hash, typ, t) ==
    hash \in DOMAIN store /\ store[hash].expires_at > t
ValidateOK(store, hash, typ, t) == Matches(store, hash, typ, t)

\* ConsumeToken: one DELETE ... RETURNING statement.
\* (variant: the type column is left out of the WHERE clause)
ConsumeOKAnyType(store, hash, typ, t) ==
    hash \in DOMAIN store /\ store[hash].expires_at > t
ConsumeOK(store, hash, typ, t) == Matches(store, hash, typ, t)
\* (variant: the row is returned but not deleted, a SELECT in place of the DELETE)
ConsumeStoreKeepsRow(store, hash, typ, t) == store
\* (variant: only authorization codes are deleted on consumption)
ConsumeStoreCodesOnly(store, hash, typ, t) ==
    IF typ = TokenAuthCode /\ Matches(store, hash, typ, t) THEN DeleteRow(store, hash) ELSE store
ConsumeStore(store, hash, typ, t) ==
    IF Matches(store, hash, typ, t) THEN DeleteRow(store, hash) ELSE store

(* ---- the settings table and the password check ---- *)
\* bcrypt.GenerateFromPassword, as far as CompareHashAndPassword can tell.
Bcrypt(password) == "bcrypt:" \o password
\* bcrypt.CompareHashAndPassword(storedHash, password) == nil
\* (variant: every password is accepted)
AnyPasswordAccepted(storedHash, password) == TRUE
CompareHashAndPassword(storedHash, password) == storedHash = Bcrypt(password)
NoSettings == [k \in {} |-> ""]
\* GetPasswordHash: GetSetting("password_hash"), ErrNotFound when absent.
HasPasswordHash(s) == "password_hash" \in DOMAIN s

(* ---- the oauth_clients table ---- *)
Client(name, uris, t) ==
    [client_name |-> name, redirect_uris |-> uris, created_at |-> t, last_used_at |-> t]
\* UPDATE oauth_clients SET last_used_at = now WHERE client_id = ?
\* (variant: without the WHERE clause)
TouchEveryClient(cl, clientID, t) ==
    [c \in DOMAIN cl |-> [cl[c] EXCEPT !.last_used_at = t]]
TouchClient(cl, clientID, t) ==
    [c \in DOMAIN cl |-> IF c = clientID THEN [cl[c] EXCEPT !.last_used_at = t] ELSE cl[c]]
\* the loop of handleAuthorizeGet over client.RedirectURIs
\* (variant: a registered URI need only be a prefix of the requested one)
ValidRedirectPrefix(client, redirectURI) ==
    \E k \in 1..Len(client.redirect_uris) :
        /\ Len(redirectURI) >= Len(client.redirect_uris[k])
        /\ SubSeq(redirectURI, 1, Len(client.redirect_uris[k])) = client.redirect_uris[k]
ValidRedirect(client, redirectURI) ==
    \E k \in 1..Len(client.redirect_uris) : client.redirect_uris[k] = redirectURI

(* ---- strings ---- *)
HasPrefix(s, prefix) == Len(s) >= Len(prefix) /\ SubSeq(s, 1, Len(prefix)) = prefix
TrimPrefix(s, prefix) ==
    IF HasPrefix(s, prefix) THEN SubSeq(s, Len(prefix) + 1, Len(s)) ELSE s

(* ---- responses ---- *)
NoLocation == [k \in {} |-> ""]
NoBody == [k \in {} |-> ""]
Response(status, err, challenge, location, body) ==
    [status |-> status, error |-> err, www_authenticate |-> challenge,
     location |-> location, body |-> body]
\* writeError(w, status, msg)
WriteError(status, msg) == Response(status, msg, "", NoLocation, NoBody)
\* the 401 of requireAuth with its WWW-Authenticate header
Unauthorized(msg, challenge) == Response(401, msg, challenge, NoLocation, NoBody)
\* the login form of handleAuthorizeGet: it carries the CSRF token only
FormPage(csrfToken) == Response(200, "", "", NoLocation, [csrf_token |-> csrfToken])
\* http.Redirect to redirect_uri?code=...[&state=...]
RedirectTo(redirectURI, code, state) ==
    Response(302, "", "",
             IF state # ""
             THEN [uri |-> redirectURI, code |-> code, state |-> state]
             ELSE [uri |-> redirectURI, code |-> code],
             NoBody)
\* tokenResponse
TokenResponse(accessToken, refreshToken) ==
    Response(200, "", "", NoLocation,
             [access_token |-> accessToken, token_type |-> "Bearer",
              expires_in |-> TokenExpiry, refresh_token |-> refreshToken])

(* ---- the rate limiter (httpd/ratelimit.go) ---- *)
\* A token bucket of golang.org/x/time/rate, as Allow uses it: permits held
\* at time last. A new Limiter holds no permits at the zero time, which is a
\* full bucket at any time of the model.
Limiter(permits, t) == [tokens |-> permits, last |-> t]
Min(a, b) == IF a < b THEN a ELSE b
\* advance: the permits the bucket holds at time t, at most burst.
Advance(lim, rate, burst, t) == Min(burst, lim.tokens + (t - lim.last) * rate)

\* NewIPRateLimiter(r, b, behindProxy); rate is in permits per time unit.
NewIPRateLimiter(r, b, behindProxy) ==
    [limiters |-> [k \in {} |-> 0], rate |-> r, burst |-> b,
     behindProxy |-> behindProxy, warnedProxy |-> FALSE]

\* NewServer: 0.1 permits per second, that is 30 per time unit, burst 3.
ServerRate == 30
ServerBurst == 3

\* strings.IndexByte and strings.LastIndexByte, counted from 1; 0 when absent.
Positions(s, c) == {k \in 1..Len(s) : SubSeq(s, k, k) = c}
IndexByte(s, c) ==
    IF Positions(s, c) = {} THEN 0
    ELSE CHOOSE k \in Positions(s, c) : \A m \in Positions(s, c) : k <= m
LastIndexByte(s, c) ==
    IF Positions(s, c) = {} THEN 0
    ELSE CHOOSE k \in Positions(s, c) : \A m \in Positions(s, c) : m <= k

\* net.JoinHostPort: how the transport writes the peer address into
\* r.RemoteAddr; an IPv6 host is put in brackets.
JoinHostPort(host, port) ==
    IF IndexByte(host, ":") # 0 THEN "[" \o host \o "]:" \o port ELSE host \o ":" \o port

\* net.SplitHostPort: the host of "host:port" or "[host]:port", or an error.
SplitHostPort(hostport) ==
    LET i == LastIndexByte(hostport, ":")
        end == IndexByte(hostport, "]")
        bad == [ok |-> FALSE, host |-> ""]
    IN  IF i = 0 THEN bad
        ELSE IF SubSeq(hostport, 1, 1) = "["
        THEN IF end = 0 \/ end + 1 # i THEN bad
             ELSE [ok |-> TRUE, host |-> SubSeq(hostport, 2, end - 1)]
        ELSE IF IndexByte(SubSeq(hostport, 1, i - 1), ":") # 0 THEN bad
             ELSE [ok |-> TRUE, host |-> SubSeq(hostport, 1, i - 1)]

\* getIP: the host of r.RemoteAddr, or r.RemoteAddr as it is.
getIP(remoteAddr) ==
    IF SplitHostPort(remoteAddr).ok THEN SplitHostPort(remoteAddr).host ELSE remoteAddr

\* getIPFromXFF: the header up to its first comma.
getIPFromXFF(xff) ==
    IF IndexByte(xff, ",") = 0 THEN xff ELSE SubSeq(xff, 1, IndexByte(xff, ",") - 1)

\* How a proxy writes X-Forwarded-For: the addresses, joined by ", ".
RECURSIVE JoinXFF(_)
JoinXFF(addrs) ==
    IF addrs = <<>> THEN ""
    ELSE IF Len(addrs) = 1 THEN addrs[1]
    ELSE addrs[1] \o ", " \o JoinXFF(Tail(addrs))

\* RateLimit, lines 110-127: the key of the request.
\* (variant: the header is trusted whatever the configuration)
RequestKeyTrustingHeader(behindProxy, remoteAddr, xff) ==
    IF xff # "" THEN getIPFromXFF(xff) ELSE getIP(remoteAddr)
RequestKey(behindProxy, remoteAddr, xff) ==
    IF behindProxy /\ xff # "" THEN getIPFromXFF(xff) ELSE getIP(remoteAddr)

\* getLimiter: the visitor of the key, created with a full bucket if absent.
Visitor(lim, t) == [limiter |-> lim, lastSeen |-> t]
\* (variant: every key is counted against one bucket)
GetSharedLimiter(r, ip, t) ==
    IF DOMAIN r.limiters # {}
    THEN r.limiters[CHOOSE k \in DOMAIN r.limiters : TRUE].limiter
    ELSE Limiter(r.burst, t)
GetLimiter(r, ip, t) ==
    IF ip \in DOMAIN r.limiters THEN r.limiters[ip].limiter ELSE Limiter(r.burst, t)
\* Limiter.Allow: a permit is there to take.
\* (variant: an empty bucket is let through)
AllowWithEmptyBucket(r, ip, t) == Advance(GetLimiter(r, ip, t), r.rate, r.burst, t) >= 0
AllowOK(r, ip, t) == Advance(GetLimiter(r, ip, t), r.rate, r.burst, t) >= 1
\* The limiter after Allow(ip) at time t, and after the warning of RateLimit
\* about a header it does not trust.
AfterAllow(r, ip, t, xff) ==
    LET lim == GetLimiter(r, ip, t)
        taken == IF AllowOK(r, ip, t)
                 THEN Limiter(Advance(lim, r.rate, r.burst, t) - 1, t)
                 ELSE lim
    IN  [r EXCEPT !.limiters = [k \in DOMAIN r.limiters \cup {ip} |->
                                   IF k = ip THEN Visitor(taken, t) ELSE r.limiters[k]],
                  !.warnedProxy = r.warnedProxy \/ (xff # "" /\ ~r.behindProxy)]

\* The 429 of RateLimit, with its Retry-After header.
TooManyRequests ==
    [status |-> 429, error |-> "rate limit exceeded", www_authenticate |-> "",
     location |-> NoLocation, body |-> NoBody, retry_after |-> "1"]

(* ---- redirect URIs at registration ---- *)
\* A URI by its parts, and url.URL.String: how a client writes it.
URI(scheme, host, port, path, fragment) ==
    [scheme |-> scheme, host |-> host, port |-> port, path |-> path, fragment |-> fragment]
FormatURI(u) ==
    u.scheme \o "://"
      \o (IF IndexByte(u.host, ":") # 0 THEN "[" \o u.host \o "]" ELSE u.host)
      \o (IF u.port # "" THEN ":" \o u.port ELSE "")
      \o u.path
      \o (IF u.fragment # "" THEN "#" \o u.fragment ELSE "")

\* url.Parse, for absolute URIs without query or userinfo: the fragment is cut
\* at the first '#', the scheme at the first ':' (none if a '/' comes first),
\* the authority runs from "//" to the next '/'.
ParseFragment(uri) ==
    IF IndexByte(uri, "#") = 0 THEN "" ELSE SubSeq(uri, IndexByte(uri, "#") + 1, Len(uri))
BeforeFragment(uri) ==
    IF IndexByte(uri, "#") = 0 THEN uri ELSE SubSeq(uri, 1, IndexByte(uri, "#") - 1)
ParseScheme(uri) ==
    LET rest == BeforeFragment(uri)
        i == IndexByte(rest, ":")
    IN  IF i = 0 \/ IndexByte(SubSeq(rest, 1, i - 1), "/") # 0 THEN "" ELSE SubSeq(rest, 1, i - 1)
ParseHost(uri) ==
    LET rest == BeforeFragment(uri)
        after == SubSeq(rest, Len(ParseScheme(uri)) + 2, Len(rest))
        auth == IF Len(after) >= 2 /\ SubSeq(after, 1, 2) = "//"
                THEN SubSeq(after, 3, Len(after)) ELSE ""
    IN  IF IndexByte(auth, "/") = 0 THEN auth ELSE SubSeq(auth, 1, IndexByte(auth, "/") - 1)
\* url.URL.Hostname: the host without its port and without brackets.
Hostname(host) ==
    IF host # "" /\ SubSeq(host, 1, 1) = "["
    THEN IF IndexByte(host, "]") = 0 THEN host ELSE SubSeq(host, 2, IndexByte(host, "]") - 1)
    ELSE IF IndexByte(host, ":") = 0 THEN host ELSE SubSeq(host, 1, IndexByte(host, ":") - 1)
\* url.Parse fails: a colon opens the URI ("missing protocol scheme").
ParseFails(uri) == uri # "" /\ SubSeq(uri, 1, 1) = ":"

\* validateRedirectURI: the error, "" for nil.
\* (variant: http is allowed for every host)
validateRedirectURIAnyHost(uri) ==
    IF ParseFails(uri) THEN "invalid URL"
    ELSE IF ParseScheme(uri) \notin {"https", "http"} THEN "scheme must be http or https"
    ELSE IF ParseFragment(uri) # "" THEN "fragment not allowed"
    ELSE ""
validateRedirectURI(uri) ==
    IF ParseFails(uri) THEN "invalid URL"
    ELSE IF ParseScheme(uri) \notin {"https", "http"} THEN "scheme must be http or https"
    ELSE IF /\ ParseScheme(uri) = "http"
            /\ Hostname(ParseHost(uri)) \notin {"localhost", "127.0.0.1", "::1"}
         THEN "http only allowed for localhost"
    ELSE IF ParseFragment(uri) # "" THEN "fragment not allowed"
    ELSE ""

\* DeleteStaleClients: clients unused for more than 90 days go. A time unit
\* is five minutes.
StaleAfter == 25920
\* (variant: a client last used exactly 90 days ago goes too)
DeleteStaleClientsInclusive(cl, t) ==
    [c \in {x \in DOMAIN cl : ~(cl[x].last_used_at <= t - StaleAfter)} |-> cl[c]]
DeleteStaleClients(cl, t) ==
    [c \in {x \in DOMAIN cl : ~(cl[x].last_used_at < t - StaleAfter)} |-> cl[c]]
\* CreateClient: INSERT INTO oauth_clients; created_at and last_used_at are
\* the time of the insert.
CreateClient(cl, clientID, name, uris, t) ==
    [c \in DOMAIN cl \cup {clientID} |-> IF c = clientID THEN Client(name, uris, t) ELSE cl[c]]

(* ---- state ---- *)
VARIABLES
    now,        \* time.Now().Unix()
    tokens,     \* the tokens table: hash -> row
    clients,    \* the oauth_clients table: client_id -> row
    settings,   \* the settings table: key -> value
    nextTok,    \* the number of the next value GenerateToken returns
    w,          \* the request each worker (goroutine) is serving, and where it is
    sent,       \* the response written by the latest step, with its request
    grants,     \* history: the successful responses and the secrets they carried
    rl,         \* the IPRateLimiter of the server
    chunks,     \* the chunks table: id -> content
    index       \* the vector.Index of the MCP server: id -> vector

vars == <<now, tokens, clients, settings, nextTok, w, sent, grants, rl, chunks, index>>

Idle == [op |-> "idle", pc |-> "idle", req |-> <<>>, todo |-> <<>>, resp |-> <<>>, loc |-> <<>>]
NoResponse == [op |-> "none"]
Sent(op, req, resp) == [op |-> op, req |-> req, resp |-> resp]
\* by: the secret the request presented; out: the secrets the response carries;
\* bound: what the server bound to them.
Grant(op, by, out, bound) == [op |-> op, by |-> by, out |-> out, bound |-> bound]
\* history: ConsumeToken returned the row of this secret
Consumed(token, typ) == Grant("consumed", token, <<>>, typ)

(* ---- what requests carry ---- *)
\* Secrets a caller can present: every secret a response has carried so far
\* (a caller cannot guess one that is still in the server's hands), a value
\* that was never generated, and the empty string.
Presentable ==
    {g.out[k] : <<g, k>> \in {x \in grants \X (1..2) : x[2] \in DOMAIN x[1].out}}
    \cup {Tok(0), ""}
ClientIDs == {"c1", "c2"}
RedirectURIs == {"u1", "u2"}
Verifiers == {"v1", "v2"}
Passwords == {"pw", "bad"}

AuthorizeGetRequest(clientID, redirectURI, responseType, challenge, method, state) ==
    [client_id |-> clientID, redirect_uri |-> redirectURI, response_type |-> responseType,
     code_challenge |-> challenge, code_challenge_method |-> method, state |-> state]
AuthorizeGetRequests ==
    { AuthorizeGetRequest("c1", "u1", "code", HashPKCE("v1"), "S256", "s1"),
      AuthorizeGetRequest("c1", "u1", "code", "", "", ""),
      AuthorizeGetRequest("c2", "u1", "code", HashPKCE("v1"), "S256", "s1"),
      AuthorizeGetRequest("c1", "u1/x", "code", HashPKCE("v1"), "S256", "s1"),
      AuthorizeGetRequest("c1", "u1", "token", HashPKCE("v1"), "S256", "s1"),
      AuthorizeGetRequest("c1", "u1", "code", HashPKCE("v1"), "plain", "s1") }

\* The form of POST /authorize; a client may add any field it likes.
Untampered == [client_id |-> "", redirect_uri |-> "", code_challenge |-> "",
               code_challenge_method |-> "", state |-> ""]
Tampered == [client_id |-> "c2", redirect_uri |-> "u2", code_challenge |-> HashPKCE("v2"),
             code_challenge_method |-> "plain", state |-> "s2"]
AuthorizePostRequests ==
    [form_ok : {TRUE}, csrf_token : Presentable, password : Passwords,
     extra : {Untampered, Tampered}]
    \cup {[form_ok |-> FALSE, csrf_token |-> "", password |-> "", extra |-> Untampered]}

TokenAuthCodeRequests ==
    [code : Presentable, redirect_uri : RedirectURIs \cup {""},
     code_verifier : Verifiers \cup {""}, client_id : ClientIDs \cup {""}]

TokenRefreshRequests ==
    [refresh_token : Presentable, client_id : ClientIDs \cup {""}]

MCPRequests ==
    [authorization : {"", "Bearer"} \cup {"Bearer " \o t : t \in Presentable}
                     \cup {"bearer " \o t : t \in Presentable}]

(* ---- Init: the server has started; one client is registered ---- *)
Init ==
    /\ now = 0
    /\ chunks = <<>> /\ index = <<>>
    /\ rl = NewIPRateLimiter(ServerRate, ServerBurst, FALSE)
    /\ tokens = [h \in {} |-> 0]
    /\ clients = [c \in {"c1"} |-> Client("app", <<"u1">>, 0)]
    /\ settings \in {NoSettings, [password_hash |-> Bcrypt("pw")]}
    /\ nextTok = 1
    /\ w = [i \in Workers |-> Idle]
    /\ sent = NoResponse
    /\ grants = {}

\* The response of the latest step has been written to its connection.  Every
\* other step waits for this one, so that each response is observed in the
\* state it was computed in.
Flush ==
    /\ sent # NoResponse
    /\ sent' = NoResponse
    /\ UNCHANGED <<rl, now, tokens, clients, settings, nextTok, w, grants, chunks, index>>

\* Goroutines are anonymous: a new request is served by the first free worker.
Free(i) ==
    /\ sent = NoResponse
    /\ w[i].op = "idle"
    /\ \A j \in Workers : j < i => w[j].op # "idle"

\* The request has passed the limiter of its route; the bucket it took the
\* permit from is not followed.
Admitted(handler) == handler /\ UNCHANGED rl

\* Time passes.
Tick ==
    /\ sent = NoResponse
    /\ now < MaxTime
    /\ now' = now + 1
    /\ sent' = NoResponse
    /\ UNCHANGED <<rl, tokens, clients, settings, nextTok, w, grants, chunks, index>>

\* A handler returns: the response is written and the goroutine ends.
Reply(i, op, req, resp) ==
    /\ w' = [w EXCEPT ![i] = Idle]
    /\ sent' = Sent(op, req, resp)

\* A handler goes on to StoreToken for each element of todo.
Continue(i, op, req, todo, resp, loc) ==
    /\ w' = [w EXCEPT ![i] = [op |-> op, pc |-> "sweep", req |-> req, todo |-> todo,
                              resp |-> resp, loc |-> loc]]
    /\ sent' = NoResponse

\* A token a handler is about to pass to StoreToken, with the lifetime its
\* ExpiresAt is computed from.
Pending(hash, row, ttl) == [hash |-> hash, row |-> row, ttl |-> ttl]
\* ExpiresAt: time.Now().Add(ttl), evaluated when the Token value is built,
\* that is right before the call of StoreToken that stores it.
\* (variant: the lifetime is not added)
StampWithoutLifetime(p, t) == [p EXCEPT !.row.expires_at = t]
Stamp(p, t) == [p EXCEPT !.row.expires_at = t + p.ttl]

(* ---- GET /authorize ---- *)
handleAuthorizeGet(i) ==
    /\ Free(i)
    /\ \E req \in AuthorizeGetRequests :
         LET codeChallengeMethod ==
                 IF req.code_challenge_method = "" THEN "S256" ELSE req.code_challenge_method
             csrfToken == Tok(nextTok)
             data == [client_id |-> req.client_id,
                      redirect_uri |-> req.redirect_uri,
                      code_challenge |-> req.code_challenge,
                      code_challenge_method |-> codeChallengeMethod,
                      state |-> req.state]
         IN  IF req.client_id \notin DOMAIN clients
             THEN /\ Reply(i, "authorize_get", req, WriteError(400, "invalid client_id"))
                  /\ UNCHANGED nextTok
             ELSE IF ~ValidRedirect(clients[req.client_id], req.redirect_uri)
             THEN /\ Reply(i, "authorize_get", req, WriteError(400, "invalid redirect_uri"))
                  /\ UNCHANGED nextTok
             ELSE IF req.response_type # "code"
             THEN /\ Reply(i, "authorize_get", req, WriteError(400, "unsupported response_type"))
                  /\ UNCHANGED nextTok
             ELSE IF codeChallengeMethod # "S256"
             THEN /\ Reply(i, "authorize_get", req,
                           WriteError(400, "unsupported code_challenge_method"))
                  /\ UNCHANGED nextTok
             ELSE /\ nextTok <= MaxTokens
                  /\ nextTok' = nextTok + 1
                  /\ Continue(i, "authorize_get", req,
                              <<Pending(HashToken(csrfToken),
                                        Row(TokenCSRF, req.client_id, now + CsrfExpiry, data),
                                        CsrfExpiry)>>,
                              FormPage(csrfToken),
                              [by |-> "", out |-> <<csrfToken>>, bound |-> data])
    /\ UNCHANGED <<rl, now, tokens, clients, settings, grants, chunks, index>>

(* ---- POST /authorize ---- *)
\* Lines 207-212: the flow parameters are read from csrf.Data; the form is
\* not consulted.
\* (variant: a field of the form, when present, takes precedence)
FlowParamFromForm(data, form, key) == IF form[key] # "" THEN form[key] ELSE Get(data, key)
FlowParam(data, form, key) == Get(data, key)

handleAuthorizePost(i) ==
    /\ Free(i)
    /\ \E req \in AuthorizePostRequests :
         LET hash == HashToken(req.csrf_token)
             ok == ConsumeOK(tokens, hash, TokenCSRF, now)
             data == IF ok THEN tokens[hash].data ELSE NilData
             clientID == FlowParam(data, req.extra, "client_id")
             redirectURI == FlowParam(data, req.extra, "redirect_uri")
             codeChallenge == FlowParam(data, req.extra, "code_challenge")
             codeChallengeMethod == FlowParam(data, req.extra, "code_challenge_method")
             state == FlowParam(data, req.extra, "state")
             code == Tok(nextTok)
         IN  IF ~req.form_ok
             THEN /\ Reply(i, "authorize_post", req, WriteError(400, "invalid form"))
                  /\ UNCHANGED <<tokens, nextTok, grants>>
             ELSE /\ tokens' = ConsumeStore(tokens, hash, TokenCSRF, now)
                  /\ grants' = IF ok THEN grants \cup {Consumed(req.csrf_token, TokenCSRF)}
                               ELSE grants
                  /\ IF ~ok
                     THEN /\ Reply(i, "authorize_post", req,
                                   WriteError(400, "invalid or expired CSRF token"))
                          /\ UNCHANGED nextTok
                     ELSE IF ~HasPasswordHash(settings)
                     THEN /\ Reply(i, "authorize_post", req,
                                   WriteError(500, "password not configured"))
                          /\ UNCHANGED nextTok
                     ELSE IF ~CompareHashAndPassword(settings["password_hash"], req.password)
                     THEN /\ Reply(i, "authorize_post", req,
                                   WriteError(401, "invalid password"))
                          /\ UNCHANGED nextTok
                     ELSE /\ nextTok <= MaxTokens
                          /\ nextTok' = nextTok + 1
                          /\ Continue(i, "authorize_post", req,
                                 <<Pending(HashToken(code),
                                      Row(TokenAuthCode, clientID, now + CodeExpiry,
                                          [client_id |-> clientID,
                                           redirect_uri |-> redirectURI,
                                           code_challenge |-> codeChallenge,
                                           code_challenge_method |-> codeChallengeMethod]),
                                      CodeExpiry)>>,
                                 RedirectTo(redirectURI, code, state),
                                 [by |-> req.csrf_token, out |-> <<code>>,
                                  bound |-> clientID])
    /\ UNCHANGED <<now, clients, settings, chunks, index>>

(* ---- POST /token, grant_type = authorization_code ---- *)
\* Lines 286 and 290: the binding checks.
\* (variant: the client_id check is left out)
AnyClientMatches(data, clientID) == TRUE
ClientMatches(data, clientID) == Get(data, "client_id") = clientID
RedirectMatches(data, redirectURI) == Get(data, "redirect_uri") = redirectURI
\* Lines 296-297: subtle.ConstantTimeCompare of S256(code_verifier) and the
\* bound challenge is 1 exactly when the two byte strings are equal.
\* (variant: the verifier is compared as it is, the "plain" method)
VerifierMatchesPlain(data, codeVerifier) == codeVerifier = Get(data, "code_challenge")
\* (variant: a code bound to no challenge is exchanged without PKCE)
VerifierMatchesOrUnbound(data, codeVerifier) ==
    Get(data, "code_challenge") = "" \/ HashPKCE(codeVerifier) = Get(data, "code_challenge")
VerifierMatches(data, codeVerifier) == HashPKCE(codeVerifier) = Get(data, "code_challenge")

handleTokenAuthCode(i) ==
    /\ Free(i)
    /\ \E req \in TokenAuthCodeRequests :
         LET hash == HashToken(req.code)
             ok == ConsumeOK(tokens, hash, TokenAuthCode, now)
             data == IF ok THEN tokens[hash].data ELSE NilData
             accessToken == Tok(nextTok)
             refreshToken == Tok(nextTok + 1)
         IN  IF req.code = "" \/ req.redirect_uri = "" \/ req.code_verifier = ""
                \/ req.client_id = ""
             THEN /\ Reply(i, "token_auth_code", req,
                           WriteError(400, "missing required parameters"))
                  /\ UNCHANGED <<tokens, nextTok, grants>>
             ELSE /\ tokens' = ConsumeStore(tokens, hash, TokenAuthCode, now)
                  /\ grants' = IF ok THEN grants \cup {Consumed(req.code, TokenAuthCode)}
                               ELSE grants
                  /\ IF ~ok
                     THEN /\ Reply(i, "token_auth_code", req,
                                   WriteError(400, "invalid or expired code"))
                          /\ UNCHANGED nextTok
                     ELSE IF ~ClientMatches(data, req.client_id)
                     THEN /\ Reply(i, "token_auth_code", req,
                                   WriteError(400, "client_id mismatch"))
                          /\ UNCHANGED nextTok
                     ELSE IF ~RedirectMatches(data, req.redirect_uri)
                     THEN /\ Reply(i, "token_auth_code", req,
                                   WriteError(400, "redirect_uri mismatch"))
                          /\ UNCHANGED nextTok
                     ELSE IF ~VerifierMatches(data, req.code_verifier)
                     THEN /\ Reply(i, "token_auth_code", req,
                                   WriteError(400, "invalid code_verifier"))
                          /\ UNCHANGED nextTok
                     ELSE /\ nextTok + 1 <= MaxTokens
                          /\ nextTok' = nextTok + 2
                          /\ Continue(i, "token_auth_code", req,
                                 <<Pending(HashToken(accessToken),
                                      Row(TokenAccess, req.client_id, now + TokenExpiry,
                                          NilData),
                                      TokenExpiry),
                                   Pending(HashToken(refreshToken),
                                      Row(TokenRefresh, req.client_id,
                                          now + RefreshTokenExpiry, NilData),
                                      RefreshTokenExpiry)>>,
                                 TokenResponse(accessToken, refreshToken),
                                 [by |-> req.code, out |-> <<accessToken, refreshToken>>,
                                  client_id |-> req.client_id, expires_at |-> 0,
                                  access_expires_at |-> 0])
    /\ UNCHANGED <<now, clients, settings, chunks, index>>

(* ---- POST /token, grant_type = refresh_token ---- *)
\* Line 353: the token belongs to the client that presents it.
\* (variant: the owner of the token is not compared)
OwnedByAnyClient(row, clientID) == TRUE
OwnedBy(row, clientID) == row.client_id = clientID

\* Lines 331-357: the parameter checks, ValidateToken and the client check.
handleTokenRefresh(i) ==
    /\ Free(i)
    /\ \E req \in TokenRefreshRequests :
         LET hash == HashToken(req.refresh_token)
             ok == ValidateOK(tokens, hash, TokenRefresh, now)
             newAccessToken == Tok(nextTok)
             newRefreshToken == Tok(nextTok + 1)
         IN  IF req.refresh_token = ""
             THEN /\ Reply(i, "token_refresh", req, WriteError(400, "missing refresh_token"))
                  /\ UNCHANGED nextTok
             ELSE IF req.client_id = ""
             THEN /\ Reply(i, "token_refresh", req, WriteError(400, "missing client_id"))
                  /\ UNCHANGED nextTok
             ELSE IF ~ok
             THEN /\ Reply(i, "token_refresh", req,
                           WriteError(400, "invalid or expired refresh_token"))
                  /\ UNCHANGED nextTok
             ELSE IF ~OwnedBy(tokens[hash], req.client_id)
             THEN /\ Reply(i, "token_refresh", req, WriteError(400, "invalid refresh_token"))
                  /\ UNCHANGED nextTok
             ELSE /\ nextTok + 1 <= MaxTokens
                  /\ nextTok' = nextTok + 2
                  /\ w' = [w EXCEPT ![i] =
                              [op |-> "token_refresh", pc |-> "delete", req |-> req,
                               todo |-> <<>>,
                               resp |-> TokenResponse(newAccessToken, newRefreshToken),
                               loc |-> [by |-> req.refresh_token,
                                        out |-> <<newAccessToken, newRefreshToken>>,
                                        client_id |-> tokens[hash].client_id,
                                        expires_at |-> 0, access_expires_at |-> 0]]]
                  /\ sent' = NoResponse
    /\ UNCHANGED <<now, tokens, clients, settings, grants, chunks, index>>

\* Lines 359-368: DeleteToken(hash), then the new secrets and their expiry.
RotateDelete(i) ==
    /\ sent = NoResponse
    /\ w[i].op = "token_refresh"
    /\ w[i].pc = "delete"
    /\ tokens' = DeleteRow(tokens, HashToken(w[i].req.refresh_token))
    /\ w' = [w EXCEPT ![i].pc = "sweep",
                      ![i].todo =
                          <<Pending(HashToken(w[i].loc.out[1]),
                                Row(TokenAccess, w[i].loc.client_id, now + TokenExpiry, NilData),
                                TokenExpiry),
                            Pending(HashToken(w[i].loc.out[2]),
                                Row(TokenRefresh, w[i].loc.client_id,
                                    now + RefreshTokenExpiry, NilData),
                                RefreshTokenExpiry)>>]
    /\ sent' = NoResponse
    /\ UNCHANGED <<rl, now, clients, settings, nextTok, grants, chunks, index>>

(* ---- StoreToken: two statements ---- *)
\* DELETE FROM tokens WHERE expires_at < now
StoreTokenSweep(i) ==
    /\ sent = NoResponse
    /\ w[i].pc = "sweep"
    /\ tokens' = SweepExpired(tokens, now)
    /\ w' = [w EXCEPT ![i].pc = "insert"]
    /\ sent' = NoResponse
    /\ UNCHANGED <<rl, now, clients, settings, nextTok, grants, chunks, index>>

\* INSERT OR REPLACE; the authorize handlers answer right after their only
\* StoreToken, the token handlers go on to the next StoreToken or TouchClient.
StoreTokenInsert(i) ==
    /\ sent = NoResponse
    /\ w[i].pc = "insert"
    /\ tokens' = InsertOrReplace(tokens, Head(w[i].todo).hash, Head(w[i].todo).row)
    /\ IF Len(w[i].todo) > 1
       THEN /\ w' = [w EXCEPT ![i].pc = "sweep",
                              ![i].todo = <<Stamp(w[i].todo[2], now)>>
                                          \o Tail(Tail(w[i].todo)),
                              ![i].loc.access_expires_at = Head(w[i].todo).row.expires_at]
            /\ sent' = NoResponse
            /\ UNCHANGED grants
       ELSE IF w[i].op \in {"token_auth_code", "token_refresh"}
       THEN /\ w' = [w EXCEPT ![i].pc = "touch", ![i].todo = <<>>,
                              ![i].loc.expires_at = Head(w[i].todo).row.expires_at]
            /\ sent' = NoResponse
            /\ UNCHANGED grants
       ELSE /\ Reply(i, w[i].op, w[i].req, w[i].resp)
            /\ grants' = grants \cup {Grant(w[i].op, w[i].loc.by, w[i].loc.out, w[i].loc.bound)}
    /\ UNCHANGED <<rl, now, clients, settings, nextTok, chunks, index>>

\* TouchClient and the 200 token response of both grants.
TouchAndRespond(i) ==
    /\ sent = NoResponse
    /\ w[i].pc = "touch"
    /\ clients' = TouchClient(clients, w[i].loc.client_id, now)
    /\ Reply(i, w[i].op, w[i].req, w[i].resp)
    /\ grants' = grants \cup {Grant(w[i].op, w[i].loc.by, w[i].loc.out,
                                    [client_id |-> w[i].loc.client_id,
                                     expires_at |-> w[i].loc.expires_at,
                                     access_expires_at |-> w[i].loc.access_expires_at])}
    /\ UNCHANGED <<rl, now, tokens, settings, nextTok, chunks, index>>

(* ---- POST /token with a body that does not parse, or another grant_type ---- *)
TokenRejectedRequests ==
    {[form_ok |-> FALSE, grant_type |-> ""], [form_ok |-> TRUE, grant_type |-> "password"]}
handleTokenRejected(i) ==
    /\ Free(i)
    /\ \E req \in TokenRejectedRequests :
         Reply(i, "token", req,
               IF ~req.form_ok THEN WriteError(400, "invalid form")
               ELSE WriteError(400, "unsupported grant_type"))
    /\ UNCHANGED <<now, tokens, clients, settings, nextTok, grants, chunks, index>>

(* ---- POST /mcp behind requireAuth ---- *)
\* What handleMCP answers once it runs; its work is outside this model.
HandlerStatuses == {200, 204, 413, 415}
HandlerRan(status) == Response(status, "", "", NoLocation, [handler |-> "handleMCP"])

requireAuth(i) ==
    /\ Free(i)
    /\ \E req \in MCPRequests :
         LET auth == req.authorization
             token == TrimPrefix(auth, "Bearer ")
             hash == HashToken(token)
         IN  IF ~HasPrefix(auth, "Bearer ")
             THEN Reply(i, "mcp", req, Unauthorized("missing token", "Bearer realm=\"mykb\""))
             ELSE IF ~ValidateOK(tokens, hash, TokenAccess, now)
             THEN Reply(i, "mcp", req,
                        Unauthorized("invalid token",
                                     "Bearer realm=\"mykb\", error=\"invalid_token\""))
             ELSE \E status \in HandlerStatuses : Reply(i, "mcp", req, HandlerRan(status))
    /\ UNCHANGED <<rl, now, tokens, clients, settings, nextTok, grants, chunks, index>>

(* ---- the interactive leg: GET and POST /authorize ---- *)
\* Six secrets were generated and used up before; the store is empty.
InitAuthorize ==
    /\ now = 0
    /\ chunks = <<>> /\ index = <<>>
    /\ rl = NewIPRateLimiter(ServerRate, ServerBurst, FALSE)
    /\ tokens = [h \in {} |-> 0]
    /\ clients = [c \in {"c1"} |-> Client("app", <<"u1">>, 0)]
    /\ settings \in {NoSettings, [password_hash |-> Bcrypt("pw")]}
    /\ nextTok = 7
    /\ w = [i \in Workers |-> Idle]
    /\ sent = NoResponse
    /\ grants = {}

NextAuthorize ==
    \/ Tick
    \/ Flush
    \/ \E i \in Workers : handleAuthorizeGet(i)
    \/ \E i \in Workers : Admitted(handleAuthorizePost(i))
    \/ \E i \in Workers : StoreTokenSweep(i)
    \/ \E i \in Workers : StoreTokenInsert(i)

SpecAuthorize == InitAuthorize /\ [][NextAuthorize]_vars

(* ---- the exchange leg: POST /token with an authorization code, POST /mcp ---- *)
\* The data GET /authorize bound to a CSRF token for client c1.
BoundData(challenge, state) ==
    [client_id |-> "c1", redirect_uri |-> "u1", code_challenge |-> challenge,
     code_challenge_method |-> "S256", state |-> state]
\* The data POST /authorize copies from the CSRF token to the code.
CodeData(data) ==
    [client_id |-> data.client_id, redirect_uri |-> data.redirect_uri,
     code_challenge |-> data.code_challenge,
     code_challenge_method |-> data.code_challenge_method]

\* The user has just authorized client c1: CSRF token t1 was consumed and the
\* authorization code t2 is stored.
InitExchange ==
    /\ now = 0
    /\ chunks = <<>> /\ index = <<>>
    /\ rl = NewIPRateLimiter(ServerRate, ServerBurst, FALSE)
    /\ \E challenge \in {"", HashPKCE("v1")} :
         /\ tokens = [h \in {HashToken(Tok(2))} |->
                         Row(TokenAuthCode, "c1", CodeExpiry,
                             CodeData(BoundData(challenge, "s1")))]
         /\ grants = {Grant("authorize_get", "", <<Tok(1)>>, BoundData(challenge, "s1")),
                      Grant("authorize_post", Tok(1), <<Tok(2)>>, "c1")}
    /\ clients = [c \in {"c1"} |-> Client("app", <<"u1">>, 0)]
    /\ settings = [password_hash |-> Bcrypt("pw")]
    /\ nextTok = 3
    /\ w = [i \in Workers |-> Idle]
    /\ sent = NoResponse

NextExchange ==
    \/ Tick
    \/ Flush
    \/ \E i \in Workers : Admitted(handleTokenAuthCode(i))
    \/ \E i \in Workers : Admitted(handleTokenRejected(i))
    \/ \E i \in Workers : StoreTokenSweep(i)
    \/ \E i \in Workers : StoreTokenInsert(i)
    \/ \E i \in Workers : TouchAndRespond(i)
    \/ \E i \in Workers : requireAuth(i)

SpecExchange == InitExchange /\ [][NextExchange]_vars

(* ---- the refresh leg: POST /token with a refresh token, POST /mcp ---- *)
\* One time unit ago client c1 exchanged its code t2 for the access token t3
\* and the refresh token t4.
InitRefresh ==
    /\ now = 0
    /\ chunks = <<>> /\ index = <<>>
    /\ rl = NewIPRateLimiter(ServerRate, ServerBurst, FALSE)
    /\ tokens = [h \in {HashToken(Tok(3)), HashToken(Tok(4))} |->
                    IF h = HashToken(Tok(3))
                    THEN Row(TokenAccess, "c1", TokenExpiry - 1, NilData)
                    ELSE Row(TokenRefresh, "c1", RefreshTokenExpiry - 1, NilData)]
    /\ grants = {Grant("token_auth_code", Tok(2), <<Tok(3), Tok(4)>>,
                       [client_id |-> "c1", expires_at |-> RefreshTokenExpiry - 1,
                        access_expires_at |-> TokenExpiry - 1])}
    /\ clients = [c \in {"c1"} |-> Client("app", <<"u1">>, 0)]
    /\ settings = [password_hash |-> Bcrypt("pw")]
    /\ nextTok = 5
    /\ w = [i \in Workers |-> Idle]
    /\ sent = NoResponse

NextRefresh ==
    \/ Tick
    \/ Flush
    \/ \E i \in Workers : Admitted(handleTokenRefresh(i))
    \/ \E i \in Workers : RotateDelete(i)
    \/ \E i \in Workers : StoreTokenSweep(i)
    \/ \E i \in Workers : StoreTokenInsert(i)
    \/ \E i \in Workers : TouchAndRespond(i)
    \/ \E i \in Workers : requireAuth(i)

SpecRefresh == InitRefresh /\ [][NextRefresh]_vars

(* ---- the token store on its own: callers of storage/tokens.go ---- *)
\* What a storage call returns: the row and a nil error, or sql.ErrNoRows.
Returned(err, row) == [err |-> err, token |-> row]
ErrNoRows == "sql: no rows in result set"
NoRow == [k \in {} |-> ""]

\* The secrets the callers of this leg store and look up, and what they
\* store them as.
StoreTokens == {Tok(1), Tok(2)}
StoreTTLs == {1}
StoreRequest(token, typ) == [hash |-> HashToken(token), type |-> typ]

\* History: the StoreToken calls that have written a row for this secret, and
\* the ConsumeToken calls that have returned one.
StoredOf(token) == {g \in grants : g.op = "StoreToken" /\ g.by = token}
ConsumedOf(token) == {g \in grants : g.op = "ConsumeToken" /\ g.by = token}

\* A caller enters StoreToken; nextTok numbers the calls of this leg.
StoreTokenCall(i) ==
    /\ Free(i)
    /\ nextTok <= MaxTokens
    /\ nextTok' = nextTok + 1
    /\ \E token \in StoreTokens, typ \in TokenTypes, ttl \in StoreTTLs :
         Continue(i, "StoreToken", StoreRequest(token, typ),
                  <<Pending(HashToken(token), Row(typ, "c1", now + ttl, NilData), ttl)>>,
                  Returned("", NoRow),
                  [by |-> token, out |-> <<>>, bound |-> nextTok])
    /\ UNCHANGED <<rl, now, tokens, clients, settings, grants, chunks, index>>

\* A caller enters ConsumeToken; its statement is yet to run.
ConsumeTokenCall(i) ==
    /\ Free(i)
    /\ \E token \in StoreTokens, typ \in TokenTypes :
         w' = [w EXCEPT ![i] = [op |-> "ConsumeToken", pc |-> "query",
                                req |-> StoreRequest(token, typ),
                                todo |-> <<>>, resp |-> <<>>, loc |-> [by |-> token]]]
    /\ sent' = NoResponse
    /\ UNCHANGED <<rl, now, tokens, clients, settings, nextTok, grants, chunks, index>>

\* ConsumeToken, lines 85-100: the DELETE ... RETURNING statement and the return.
ConsumeTokenQuery(i) ==
    /\ sent = NoResponse
    /\ w[i].op = "ConsumeToken"
    /\ w[i].pc = "query"
    /\ LET req == w[i].req
           ok == ConsumeOK(tokens, req.hash, req.type, now)
       IN  /\ tokens' = ConsumeStore(tokens, req.hash, req.type, now)
           /\ Reply(i, "ConsumeToken", req,
                    IF ok THEN Returned("", tokens[req.hash]) ELSE Returned(ErrNoRows, NoRow))
           /\ grants' = IF ok
                        THEN grants \cup {Grant("ConsumeToken", w[i].loc.by, <<>>,
                                                Cardinality(ConsumedOf(w[i].loc.by)) + 1)}
                        ELSE grants
    /\ UNCHANGED <<rl, now, clients, settings, nextTok, chunks, index>>

\* ValidateToken: the SELECT statement and the return.
ValidateToken(i) ==
    /\ Free(i)
    /\ \E token \in StoreTokens, typ \in TokenTypes :
         LET req == StoreRequest(token, typ)
         IN  Reply(i, "ValidateToken", req,
                   IF ValidateOK(tokens, req.hash, req.type, now)
                   THEN Returned("", tokens[req.hash]) ELSE Returned(ErrNoRows, NoRow))
    /\ UNCHANGED <<rl, now, tokens, clients, settings, nextTok, grants, chunks, index>>

\* DeleteToken: one statement.
DeleteToken(i) ==
    /\ Free(i)
    /\ \E token \in StoreTokens :
         /\ tokens' = DeleteRow(tokens, HashToken(token))
         /\ Reply(i, "DeleteToken", [hash |-> HashToken(token)], Returned("", NoRow))
    /\ UNCHANGED <<rl, now, clients, settings, nextTok, grants, chunks, index>>

\* The store holds one live token, t1, of some type, stored for client c2
\* with bound data; the callers have one secret left to store.
InitStore ==
    /\ now = 0
    /\ chunks = <<>> /\ index = <<>>
    /\ rl = NewIPRateLimiter(ServerRate, ServerBurst, FALSE)
    /\ \E typ \in TokenTypes :
         tokens = [h \in {HashToken(Tok(1))} |-> Row(typ, "c2", 1, [state |-> "s1"])]
    /\ clients = [c \in {"c1"} |-> Client("app", <<"u1">>, 0)]
    /\ settings = NoSettings
    /\ nextTok = MaxTokens
    /\ w = [i \in Workers |-> Idle]
    /\ sent = NoResponse
    /\ grants = {}

NextStore ==
    \/ Tick
    \/ Flush
    \/ \E i \in Workers : StoreTokenCall(i)
    \/ \E i \in Workers : StoreTokenSweep(i)
    \/ \E i \in Workers : StoreTokenInsert(i)
    \/ \E i \in Workers : ConsumeTokenCall(i)
    \/ \E i \in Workers : ConsumeTokenQuery(i)
    \/ \E i \in Workers : ValidateToken(i)
    \/ \E i \in Workers : DeleteToken(i)

SpecStore == InitStore /\ [][NextStore]_vars

(* ---- a session: exchange, then refresh and POST /mcp ---- *)
\* As InitExchange, with the clock one unit earlier and PKCE in use, so that
\* the tokens of the exchange can outlive their lifetimes within MaxTime; two
\* more secrets, t3 and t4, were generated and used up before.
InitSession ==
    /\ now = -1
    /\ chunks = <<>> /\ index = <<>>
    /\ rl = NewIPRateLimiter(ServerRate, ServerBurst, FALSE)
    /\ tokens = [h \in {HashToken(Tok(2))} |->
                    Row(TokenAuthCode, "c1", CodeExpiry - 1,
                        CodeData(BoundData(HashPKCE("v1"), "s1")))]
    /\ grants = {Grant("authorize_get", "", <<Tok(1)>>, BoundData(HashPKCE("v1"), "s1")),
                 Grant("authorize_post", Tok(1), <<Tok(2)>>, "c1")}
    /\ clients = [c \in {"c1"} |-> Client("app", <<"u1">>, -1)]
    /\ settings = [password_hash |-> Bcrypt("pw")]
    /\ nextTok = 5
    /\ w = [i \in Workers |-> Idle]
    /\ sent = NoResponse

NextSession ==
    \/ Tick
    \/ Flush
    \/ \E i \in Workers : Admitted(handleTokenAuthCode(i))
    \/ \E i \in Workers : Admitted(handleTokenRefresh(i))
    \/ \E i \in Workers : RotateDelete(i)
    \/ \E i \in Workers : StoreTokenSweep(i)
    \/ \E i \in Workers : StoreTokenInsert(i)
    \/ \E i \in Workers : TouchAndRespond(i)
    \/ \E i \in Workers : requireAuth(i)

SpecSession == InitSession /\ [][NextSession]_vars

(* ---- POST /register ---- *)
\* The URIs clients submit, by their parts.
SubmittedURIs ==
    {URI("https", "app.example", "", "/cb", ""),
     URI("http", "localhost", "8080", "/cb", ""),
     URI("http", "::1", "8080", "/cb", ""),
     URI("http", "app.example", "", "/cb", ""),
     URI("https", "app.example", "", "/cb", "frag"),
     URI("myapp", "cb", "", "", "")}
\* The bodies of POST /register: decoded is FALSE for a body that is not JSON.
RegisterRequest(decoded, name, uris) ==
    [decoded |-> decoded, client_name |-> name, redirect_uris |-> uris]
RegisterRequests ==
    {RegisterRequest(FALSE, "", <<>>), RegisterRequest(TRUE, "app", <<>>)}
      \cup {RegisterRequest(TRUE, "app", <<FormatURI(u)>>) : u \in SubmittedURIs}
      \cup {RegisterRequest(TRUE, "app", <<FormatURI(u), FormatURI(v)>>) :
               u \in SubmittedURIs, v \in SubmittedURIs}
\* uuid.New(): an identifier no client has; registrations stop when the
\* identifiers of the model are used up.
NewClientIDs == {"c2", "c3"}
Registering == {j \in Workers : w[j].op = "register"}
RegistrationBody(clientID, req) ==
    [client_id |-> clientID, client_name |-> req.client_name,
     redirect_uris |-> req.redirect_uris]

\* handleRegister up to DeleteStaleClients.
handleRegister(i) ==
    /\ Free(i)
    /\ Cardinality(NewClientIDs \ DOMAIN clients) > Cardinality(Registering)
    /\ \E req \in RegisterRequests :
         IF ~req.decoded
         THEN /\ Reply(i, "register", req, WriteError(400, "invalid request body"))
              /\ UNCHANGED clients
         ELSE IF Len(req.redirect_uris) = 0
         THEN /\ Reply(i, "register", req, WriteError(400, "redirect_uris required"))
              /\ UNCHANGED clients
         ELSE IF \E k \in 1..Len(req.redirect_uris) : validateRedirectURI(req.redirect_uris[k]) # ""
         THEN /\ LET k == CHOOSE m \in 1..Len(req.redirect_uris) :
                            /\ validateRedirectURI(req.redirect_uris[m]) # ""
                            /\ \A n \in 1..(m - 1) : validateRedirectURI(req.redirect_uris[n]) = ""
                 IN  Reply(i, "register", req,
                           WriteError(400, "invalid redirect_uri: "
                                              \o validateRedirectURI(req.redirect_uris[k])))
              /\ UNCHANGED clients
         ELSE /\ clients' = DeleteStaleClients(clients, now)
              /\ w' = [w EXCEPT ![i] = [op |-> "register", pc |-> "create", req |-> req,
                                        todo |-> <<>>, resp |-> <<>>, loc |-> <<>>]]
              /\ sent' = NoResponse
    /\ UNCHANGED <<now, tokens, settings, nextTok, grants, chunks, index>>

\* handleRegister from uuid.New() on: CreateClient and the 201. (The insert
\* does not fail here, so the 500 of a failed insert does not occur.)
RegisterCreate(i) ==
    /\ sent = NoResponse
    /\ w[i].op = "register"
    /\ w[i].pc = "create"
    /\ \E clientID \in NewClientIDs \ DOMAIN clients :
         /\ clients' = CreateClient(clients, clientID, w[i].req.client_name,
                                    w[i].req.redirect_uris, now)
         /\ Reply(i, "register", w[i].req,
                  Response(201, "", "", NoLocation, RegistrationBody(clientID, w[i].req)))
    /\ UNCHANGED <<rl, now, tokens, settings, nextTok, grants, chunks, index>>

\* A server with one client in use, one that was last used more than 90
\* days ago and one that was last used exactly 90 days ago.
InitRegister ==
    /\ now = 0
    /\ chunks = <<>> /\ index = <<>>
    /\ rl = NewIPRateLimiter(ServerRate, ServerBurst, FALSE)
    /\ tokens = [h \in {} |-> 0]
    /\ clients = [c \in {"c0", "c1", "c9"} |->
                    IF c = "c0" THEN Client("old", <<"u1">>, 0 - StaleAfter - 1)
                    ELSE IF c = "c9" THEN Client("idle", <<"u1">>, 0 - StaleAfter)
                    ELSE Client("app", <<"u1">>, 0)]
    /\ settings = [password_hash |-> Bcrypt("pw")]
    /\ nextTok = 1
    /\ w = [i \in Workers |-> Idle]
    /\ sent = NoResponse
    /\ grants = {}

NextRegister ==
    \/ Tick
    \/ Flush
    \/ \E i \in Workers : Admitted(handleRegister(i))
    \/ \E i \in Workers : RegisterCreate(i)

SpecRegister == InitRegister /\ [][NextRegister]_vars

(* ---- the limiter in front of a handler ---- *)
\* A connection: the peer the transport sees and the addresses a proxy chain
\* (or the client itself) has put into X-Forwarded-For.
Connection(host, port, forwarded) ==
    [peer_ip |-> host, peer_port |-> port, forwarded |-> forwarded,
     remote_addr |-> JoinHostPort(host, port), xff |-> JoinXFF(forwarded)]
Connections ==
    {Connection(peer[1], peer[2], forwarded) :
        peer \in {<<"10.0.0.1", "1234">>, <<"10.0.0.1", "5678">>, <<"::1", "1234">>},
        forwarded \in {<<>>, <<"::1", "10.0.0.1">>, <<"10.0.0.1">>}}
\* The key RateLimit derives for each connection, under either configuration.
KeyOf ==
    [behindProxy \in BOOLEAN |->
        [conn \in Connections |-> RequestKey(behindProxy, conn.remote_addr, conn.xff)]]

\* RateLimit(next) on a request of this connection: the key, Allow, and then
\* the 429 or the handler. Requests is what the route's handler would read
\* from the request.
RateLimit(i, op, conn, Requests, next) ==
    LET ip == KeyOf[rl.behindProxy][conn]
    IN  /\ rl' = AfterAllow(rl, ip, now, conn.xff)
        /\ IF AllowOK(rl, ip, now)
           THEN next
           ELSE /\ Free(i)
                /\ \E req \in Requests :
                     Reply(i, "rate_limit", [route |-> op, conn |-> conn, req |-> req],
                           TooManyRequests)
                /\ UNCHANGED <<now, tokens, clients, settings, nextTok, grants, chunks, index>>

(* ---- the limiter on its own, as ratelimit_test.go drives it ---- *)
\* The handler of the tests: it answers 200. History: the requests admitted
\* for each key, numbered within their instant.
AdmittedAt(key, t) == {g \in grants : g.op = "next" /\ g.by = key /\ g.bound.at = t}
OKHandler(i, conn) ==
    /\ Free(i)
    /\ Reply(i, "next", [route |-> "next", conn |-> conn, req |-> <<>>],
             Response(200, "", "", NoLocation, NoBody))
    /\ grants' = grants \cup
         {Grant("next", KeyOf[rl.behindProxy][conn], <<>>,
                [at |-> now,
                 n |-> Cardinality(AdmittedAt(KeyOf[rl.behindProxy][conn], now)) + 1])}
    /\ UNCHANGED <<now, tokens, clients, settings, nextTok, chunks, index>>

LimitedRequest(i) ==
    \E conn \in Connections : RateLimit(i, "next", conn, {<<>>}, OKHandler(i, conn))

\* One permit per time unit (a second, here) and burst TestBurst, with or
\* without trust in the proxy header.
TestRate == 1
TestBurst == 2
InitLimiter ==
    /\ now = 0
    /\ chunks = <<>> /\ index = <<>>
    /\ \E behindProxy \in BOOLEAN : rl = NewIPRateLimiter(TestRate, TestBurst, behindProxy)
    /\ tokens = [h \in {} |-> 0]
    /\ clients = [c \in {} |-> 0]
    /\ settings = NoSettings
    /\ nextTok = 1
    /\ w = [i \in Workers |-> Idle]
    /\ sent = NoResponse
    /\ grants = {}

NextLimiter ==
    \/ Tick
    \/ Flush
    \/ \E i \in Workers : LimitedRequest(i)

SpecLimiter == InitLimiter /\ [][NextLimiter]_vars

(* ---- the routes behind the limiter, as registerRoutes wires them ---- *)
\* The peers of this server; no proxy.
ServerConnections == {Connection("10.0.0.1", "1234", <<>>), Connection("::1", "1234", <<>>)}

\* A flow is under way for client c1: a login form is open (CSRF token 1), a
\* code has been issued (3) and not exchanged, an earlier code was exchanged
\* for tokens 5 and 6. The three POSTs of that came from peer ::1 within this
\* instant and have used up its permits; peer 10.0.0.1 has sent two requests
\* that left nothing behind and has one permit left.
InitLimited ==
    /\ now = 0
    /\ chunks = <<>> /\ index = <<>>
    /\ rl = [NewIPRateLimiter(ServerRate, ServerBurst, FALSE) EXCEPT
               !.limiters = [k \in {"10.0.0.1", "::1"} |->
                               Visitor(Limiter(IF k = "::1" THEN 0 ELSE 1, now), now)]]
    /\ tokens = [h \in {HashToken(Tok(1)), HashToken(Tok(3)), HashToken(Tok(5)),
                        HashToken(Tok(6))} |->
                    IF h = HashToken(Tok(1))
                    THEN Row(TokenCSRF, "c1", now + CsrfExpiry, BoundData(HashPKCE("v1"), "s1"))
                    ELSE IF h = HashToken(Tok(3))
                    THEN Row(TokenAuthCode, "c1", now + CodeExpiry,
                             CodeData(BoundData(HashPKCE("v1"), "s1")))
                    ELSE IF h = HashToken(Tok(5))
                    THEN Row(TokenAccess, "c1", now + TokenExpiry, NilData)
                    ELSE Row(TokenRefresh, "c1", now + RefreshTokenExpiry, NilData)]
    /\ grants = {Grant("authorize_get", "", <<Tok(1)>>, BoundData(HashPKCE("v1"), "s1")),
                 Grant("authorize_post", Tok(2), <<Tok(3)>>, "c1"),
                 Grant("token_auth_code", Tok(4), <<Tok(5), Tok(6)>>,
                       [client_id |-> "c1", expires_at |-> now + RefreshTokenExpiry,
                        access_expires_at |-> now + TokenExpiry])}
    /\ clients = [c \in {"c1"} |-> Client("app", <<"u1">>, now)]
    /\ settings = [password_hash |-> Bcrypt("pw")]
    /\ nextTok = MaxTokens - 1
    /\ w = [i \in Workers |-> Idle]
    /\ sent = NoResponse

\* One instant: no permit accrues.
NextLimited ==
    \/ Flush
    \/ \E i \in Workers : \E conn \in ServerConnections :
         RateLimit(i, "register", conn, RegisterRequests, handleRegister(i))
    \/ \E i \in Workers : \E conn \in ServerConnections :
         RateLimit(i, "authorize_post", conn, AuthorizePostRequests, handleAuthorizePost(i))
    \/ \E i \in Workers : \E conn \in ServerConnections :
         RateLimit(i, "token", conn, TokenAuthCodeRequests, handleTokenAuthCode(i))
    \/ \E i \in Workers : \E conn \in ServerConnections :
         RateLimit(i, "token", conn, TokenRefreshRequests, handleTokenRefresh(i))
    \/ \E i \in Workers : \E conn \in ServerConnections :
         RateLimit(i, "token", conn, TokenRejectedRequests, handleTokenRejected(i))
    \/ \E i \in Workers : RegisterCreate(i)
    \/ \E i \in Workers : RotateDelete(i)
    \/ \E i \in Workers : StoreTokenSweep(i)
    \/ \E i \in Workers : StoreTokenInsert(i)
    \/ \E i \in Workers : TouchAndRespond(i)

SpecLimited == InitLimited /\ [][NextLimited]_vars

(* ---- storage statements that fail ---- *)
\* StoreToken returns the error of its INSERT. handleAuthorizeGet and
\* handleAuthorizePost do not look at it and answer as if the row were stored;
\* the token handlers answer 500.
StoreTokenInsertFails(i) ==
    /\ sent = NoResponse
    /\ w[i].pc = "insert"
    /\ w[i].op \in {"authorize_get", "authorize_post", "token_auth_code", "token_refresh"}
    /\ IF w[i].op \in {"authorize_get", "authorize_post"}
       THEN /\ Reply(i, w[i].op, w[i].req, w[i].resp)
            /\ grants' = grants \cup {Grant(w[i].op, w[i].loc.by, w[i].loc.out, w[i].loc.bound)}
       ELSE /\ Reply(i, w[i].op, w[i].req, WriteError(500, "failed to store token"))
            /\ UNCHANGED grants
    /\ UNCHANGED <<rl, now, tokens, clients, settings, nextTok, chunks, index>>

\* DeleteToken returns the error of its DELETE; handleTokenRefresh does not
\* look at it and goes on to issue the new tokens.
RotateDeleteFails(i) ==
    /\ sent = NoResponse
    /\ w[i].op = "token_refresh"
    /\ w[i].pc = "delete"
    /\ w' = [w EXCEPT ![i].pc = "sweep",
                      ![i].todo =
                          <<Pending(HashToken(w[i].loc.out[1]),
                                Row(TokenAccess, w[i].loc.client_id, now + TokenExpiry, NilData),
                                TokenExpiry),
                            Pending(HashToken(w[i].loc.out[2]),
                                Row(TokenRefresh, w[i].loc.client_id,
                                    now + RefreshTokenExpiry, NilData),
                                RefreshTokenExpiry)>>]
    /\ sent' = NoResponse
    /\ UNCHANGED <<rl, now, tokens, clients, settings, nextTok, grants, chunks, index>>

\* The server of InitRefresh, with two secrets left to generate, on a
\* database whose writes may fail.
InitFaults ==
    /\ now = 0
    /\ chunks = <<>> /\ index = <<>>
    /\ rl = NewIPRateLimiter(ServerRate, ServerBurst, FALSE)
    /\ tokens = [h \in {HashToken(Tok(3)), HashToken(Tok(4))} |->
                    IF h = HashToken(Tok(3))
                    THEN Row(TokenAccess, "c1", TokenExpiry - 1, NilData)
                    ELSE Row(TokenRefresh, "c1", RefreshTokenExpiry - 1, NilData)]
    /\ grants = {Grant("token_auth_code", Tok(2), <<Tok(3), Tok(4)>>,
                       [client_id |-> "c1", expires_at |-> RefreshTokenExpiry - 1,
                        access_expires_at |-> TokenExpiry - 1])}
    /\ clients = [c \in {"c1"} |-> Client("app", <<"u1">>, 0)]
    /\ settings = [password_hash |-> Bcrypt("pw")]
    /\ nextTok = MaxTokens - 1
    /\ w = [i \in Workers |-> Idle]
    /\ sent = NoResponse

NextFaults ==
    \/ Tick
    \/ Flush
    \/ \E i \in Workers : handleAuthorizeGet(i)
    \/ \E i \in Workers : Admitted(handleAuthorizePost(i))
    \/ \E i \in Workers : Admitted(handleTokenRefresh(i))
    \/ \E i \in Workers : RotateDelete(i)
    \/ \E i \in Workers : RotateDeleteFails(i)
    \/ \E i \in Workers : StoreTokenSweep(i)
    \/ \E i \in Workers : StoreTokenInsert(i)
    \/ \E i \in Workers : StoreTokenInsertFails(i)
    \/ \E i \in Workers : TouchAndRespond(i)

SpecFaults == InitFaults /\ [][NextFaults]_vars

(* ---- the server's limiter over time, with its cleanup ---- *)
\* Here a time unit is ten seconds: 0.1 permits per second are one per unit,
\* and three minutes are eighteen units.
PermitsPerUnit == 1
IdleAfter == 18
\* cleanup, line 80: the visitor has not been seen for more than three minutes.
\* (variant: any visitor not seen at this very instant counts as idle)
IdleAtOnce(v, t) == t - v.lastSeen > 0
IdleVisitor(v, t) == t - v.lastSeen > IdleAfter

\* One pass of the cleanup loop: every idle visitor is dropped. History: the
\* keys dropped, and when.
Cleanup ==
    /\ sent = NoResponse
    /\ \E ip \in DOMAIN rl.limiters : IdleVisitor(rl.limiters[ip], now)
    /\ rl' = [rl EXCEPT !.limiters =
                [k \in {ip \in DOMAIN rl.limiters : ~IdleVisitor(rl.limiters[ip], now)} |->
                    rl.limiters[k]]]
    /\ grants' = grants \cup
         {Grant("evicted", ip, <<>>, [at |-> now]) :
             ip \in {k \in DOMAIN rl.limiters : IdleVisitor(rl.limiters[k], now)}}
    /\ sent' = NoResponse
    /\ UNCHANGED <<now, tokens, clients, settings, nextTok, w, chunks, index>>

ServerRequest(i) ==
    \E conn \in ServerConnections : RateLimit(i, "next", conn, {<<>>}, OKHandler(i, conn))

\* Peer 10.0.0.1 used up its burst three minutes ago and has not been seen
\* since; peer ::1 has not been seen at all.
InitBucket ==
    /\ now = 0
    /\ chunks = <<>> /\ index = <<>>
    /\ rl = [NewIPRateLimiter(PermitsPerUnit, ServerBurst, FALSE) EXCEPT
               !.limiters = [k \in {"10.0.0.1"} |->
                               Visitor(Limiter(0, 0 - IdleAfter), 0 - IdleAfter)]]
    /\ tokens = [h \in {} |-> 0]
    /\ clients = [c \in {} |-> 0]
    /\ settings = NoSettings
    /\ nextTok = 1
    /\ w = [i \in Workers |-> Idle]
    /\ sent = NoResponse
    /\ grants = {}

NextBucket ==
    \/ Tick
    \/ Flush
    \/ Cleanup
    \/ \E i \in Workers : ServerRequest(i)

SpecBucket == InitBucket /\ [][NextBucket]_vars

(* ---- RateLimit statement by statement: the warning about the header ---- *)
\* History: the warnings written to the log, numbered, with the header of
\* the request that caused each.
Warnings == {g \in grants : g.op = "log"}
\* Line 121, under the mutex: the warning is still to be written.
\* (variant: no second look once the mutex is held)
MustWarnUnchecked(warned) == TRUE
MustWarn(warned) == ~warned

\* Lines 112-119: the header is read and, when it is not trusted, so is
\* warnedProxy, without the mutex: the read races with the write of line 125
\* and may still see FALSE after it.
RateLimitEnter(i) ==
    /\ Free(i)
    /\ \E conn \in Connections, seen \in {rl.warnedProxy, FALSE} :
         w' = [w EXCEPT ![i] =
                 [op |-> "rate_limit",
                  pc |-> IF ~(rl.behindProxy /\ conn.xff # "") /\ conn.xff # "" /\ ~seen
                         THEN "warn" ELSE "allow",
                  req |-> conn, todo |-> <<>>, resp |-> <<>>, loc |-> <<>>]]
    /\ sent' = NoResponse
    /\ UNCHANGED <<rl, now, tokens, clients, settings, nextTok, grants, chunks, index>>

\* Lines 120-127: Lock, the second look at warnedProxy, the log line, Unlock.
RateLimitWarn(i) ==
    /\ sent = NoResponse
    /\ w[i].op = "rate_limit"
    /\ w[i].pc = "warn"
    /\ IF MustWarn(rl.warnedProxy)
       THEN /\ grants' = grants \cup
                 {Grant("log", w[i].req.remote_addr, <<>>,
                        [n |-> Cardinality(Warnings) + 1, xff |-> w[i].req.xff])}
            /\ rl' = [rl EXCEPT !.warnedProxy = TRUE]
       ELSE UNCHANGED <<rl, grants>>
    /\ w' = [w EXCEPT ![i].pc = "allow"]
    /\ sent' = NoResponse
    /\ UNCHANGED <<now, tokens, clients, settings, nextTok, chunks, index>>

\* Lines 131-137: Allow(ip), then the 429 or the handler, which answers 200.
RateLimitAllow(i) ==
    /\ sent = NoResponse
    /\ w[i].op = "rate_limit"
    /\ w[i].pc = "allow"
    /\ LET conn == w[i].req
           ip == KeyOf[rl.behindProxy][conn]
       IN  /\ rl' = AfterAllow(rl, ip, now, "")
           /\ Reply(i, IF AllowOK(rl, ip, now) THEN "next" ELSE "rate_limit",
                    [route |-> "next", conn |-> conn, req |-> <<>>],
                    IF AllowOK(rl, ip, now) THEN Response(200, "", "", NoLocation, NoBody)
                    ELSE TooManyRequests)
    /\ UNCHANGED <<now, tokens, clients, settings, nextTok, grants, chunks, index>>

\* The limiter of InitLimiter at one instant, its requests taken statement by
\* statement.
NextWarn ==
    \/ Flush
    \/ \E i \in Workers : RateLimitEnter(i)
    \/ \E i \in Workers : RateLimitWarn(i)
    \/ \E i \in Workers : RateLimitAllow(i)

SpecWarn == InitLimiter /\ [][NextWarn]_vars

(* ---- every handler that reaches the oauth_clients table ---- *)
\* Two servers one unit before the end of the model's time, each with two
\* secrets left.  On the first, client c1 holds an authorization code and a
\* refresh token, both clients registered the redirect URI u2, which no GET
\* /authorize of the model asks for, and one client identifier is left.
InitTouchGrant ==
    /\ now = MaxTime - 1
    /\ chunks = <<>> /\ index = <<>>
    /\ rl = NewIPRateLimiter(ServerRate, ServerBurst, FALSE)
    /\ tokens = [h \in {HashToken(Tok(4)), HashToken(Tok(6))} |->
                    IF h = HashToken(Tok(6))
                    THEN Row(TokenAuthCode, "c1", MaxTime - 1 + CodeExpiry,
                             [client_id |-> "c1", redirect_uri |-> "u2",
                              code_challenge |-> HashPKCE("v1"),
                              code_challenge_method |-> "S256"])
                    ELSE Row(TokenRefresh, "c1", MaxTime - 1 + RefreshTokenExpiry, NilData)]
    /\ grants = {Grant("token_auth_code", Tok(2), <<Tok(3), Tok(4)>>,
                       [client_id |-> "c1", expires_at |-> MaxTime - 1 + RefreshTokenExpiry,
                        access_expires_at |-> MaxTime - 1]),
                 Grant("authorize_post", Tok(5), <<Tok(6)>>, "c1")}
    /\ clients = [c \in {"c1", "c2"} |-> Client("app", <<"u2">>, MaxTime - 2)]
    /\ settings = [password_hash |-> Bcrypt("pw")]
    /\ nextTok = MaxTokens - 1
    /\ w = [i \in Workers |-> Idle]
    /\ sent = NoResponse
\* On the second, no token is stored, the clients registered u1 and every
\* client identifier of the model is in use.
InitTouchAuthorize ==
    /\ now = MaxTime - 1
    /\ chunks = <<>> /\ index = <<>>
    /\ rl = NewIPRateLimiter(ServerRate, ServerBurst, FALSE)
    /\ tokens = [h \in {} |-> 0]
    /\ grants = {}
    /\ clients = [c \in {"c1"} \cup NewClientIDs |-> Client("app", <<"u1">>, MaxTime - 2)]
    /\ settings = [password_hash |-> Bcrypt("pw")]
    /\ nextTok = MaxTokens - 1
    /\ w = [i \in Workers |-> Idle]
    /\ sent = NoResponse
InitTouch == InitTouchGrant \/ InitTouchAuthorize

NextTouch ==
    \/ Tick
    \/ Flush
    \/ \E i \in Workers : handleAuthorizeGet(i)
    \/ \E i \in Workers : Admitted(handleAuthorizePost(i))
    \/ \E i \in Workers : Admitted(handleTokenAuthCode(i))
    \/ \E i \in Workers : Admitted(handleTokenRefresh(i))
    \/ \E i \in Workers : RotateDelete(i)
    \/ \E i \in Workers : StoreTokenSweep(i)
    \/ \E i \in Workers : StoreTokenInsert(i)
    \/ \E i \in Workers : TouchAndRespond(i)
    \/ \E i \in Workers : Admitted(handleTokenRejected(i))
    \/ \E i \in Workers : Admitted(handleRegister(i))
    \/ \E i \in Workers : RegisterCreate(i)

SpecTouch == InitTouch /\ [][NextTouch]_vars

(* ---- one token of each type, presented everywhere ---- *)
\* The server of InitLimited: a CSRF token, an authorization code, an access
\* token and a refresh token are stored and known to the callers, who present
\* them to POST /authorize, to both grants and to POST /mcp.
NextTypes ==
    \/ Tick
    \/ Flush
    \/ \E i \in Workers : Admitted(handleAuthorizePost(i))
    \/ \E i \in Workers : Admitted(handleTokenAuthCode(i))
    \/ \E i \in Workers : Admitted(handleTokenRefresh(i))
    \/ \E i \in Workers : RotateDelete(i)
    \/ \E i \in Workers : StoreTokenSweep(i)
    \/ \E i \in Workers : StoreTokenInsert(i)
    \/ \E i \in Workers : TouchAndRespond(i)
    \/ \E i \in Workers : requireAuth(i)

SpecTypes == InitLimited /\ [][NextTypes]_vars

(* ---- from the login form to the refreshed tokens ---- *)
\* Client c1 has fetched the login form twice: the CSRF tokens t1 and t2 are
\* stored, nothing else is, and six secrets are left: two codes, the pair of
\* an exchange and the pair of a refresh.
InitFlow ==
    /\ now = MaxTime - 1
    /\ chunks = <<>> /\ index = <<>>
    /\ rl = NewIPRateLimiter(ServerRate, ServerBurst, FALSE)
    /\ tokens = [h \in {HashToken(Tok(1)), HashToken(Tok(2))} |->
                    Row(TokenCSRF, "c1", MaxTime - 1 + CsrfExpiry,
                        BoundData(HashPKCE("v1"), "s1"))]
    /\ grants = {Grant("authorize_get", "", <<Tok(1)>>, BoundData(HashPKCE("v1"), "s1")),
                 Grant("authorize_get", "", <<Tok(2)>>, BoundData(HashPKCE("v1"), "s1"))}
    /\ clients = [c \in {"c1"} |-> Client("app", <<"u1">>, MaxTime - 1)]
    /\ settings = [password_hash |-> Bcrypt("pw")]
    /\ nextTok = MaxTokens - 5
    /\ w = [i \in Workers |-> Idle]
    /\ sent = NoResponse

\* One instant: no token expires on the way.
NextFlow ==
    \/ Flush
    \/ \E i \in Workers : Admitted(handleAuthorizePost(i))
    \/ \E i \in Workers : Admitted(handleTokenAuthCode(i))
    \/ \E i \in Workers : Admitted(handleTokenRefresh(i))
    \/ \E i \in Workers : RotateDelete(i)
    \/ \E i \in Workers : StoreTokenSweep(i)
    \/ \E i \in Workers : StoreTokenInsert(i)
    \/ \E i \in Workers : TouchAndRespond(i)

SpecFlow == InitFlow /\ [][NextFlow]_vars

(* ---- the refresh leg with a second client ---- *)
\* As InitRefresh, with the access token t5 and the refresh token t6 of
\* client c2 stored as well, and two secrets left.
InitRotate ==
    /\ now = 0
    /\ chunks = <<>> /\ index = <<>>
    /\ rl = NewIPRateLimiter(ServerRate, ServerBurst, FALSE)
    /\ tokens = [h \in {HashToken(Tok(3)), HashToken(Tok(4)), HashToken(Tok(5)),
                        HashToken(Tok(6))} |->
                    IF h = HashToken(Tok(3))
                    THEN Row(TokenAccess, "c1", TokenExpiry - 1, NilData)
                    ELSE IF h = HashToken(Tok(4))
                    THEN Row(TokenRefresh, "c1", RefreshTokenExpiry - 1, NilData)
                    ELSE IF h = HashToken(Tok(5))
                    THEN Row(TokenAccess, "c2", TokenExpiry - 1, NilData)
                    ELSE Row(TokenRefresh, "c2", RefreshTokenExpiry - 1, NilData)]
    /\ grants = {Grant("token_auth_code", Tok(1), <<Tok(3), Tok(4)>>,
                       [client_id |-> "c1", expires_at |-> RefreshTokenExpiry - 1,
                        access_expires_at |-> TokenExpiry - 1]),
                 Grant("token_auth_code", Tok(2), <<Tok(5), Tok(6)>>,
                       [client_id |-> "c2", expires_at |-> RefreshTokenExpiry - 1,
                        access_expires_at |-> TokenExpiry - 1])}
    /\ clients = [c \in {"c1", "c2"} |-> Client("app", <<"u1">>, 0)]
    /\ settings = [password_hash |-> Bcrypt("pw")]
    /\ nextTok = MaxTokens - 1
    /\ w = [i \in Workers |-> Idle]
    /\ sent = NoResponse

SpecRotate == InitRotate /\ [][NextRefresh]_vars

(* ---- a client that was last used more than 90 days ago comes back ---- *)
\* Client c1 was last used more than 90 days ago and has not been swept
\* yet; its user has just authorized it: the code t2 is stored.  Two secrets
\* are left.
InitStale ==
    /\ now = 0
    /\ chunks = <<>> /\ index = <<>>
    /\ rl = NewIPRateLimiter(ServerRate, ServerBurst, FALSE)
    /\ tokens = [h \in {HashToken(Tok(2))} |->
                    Row(TokenAuthCode, "c1", CodeExpiry,
                        CodeData(BoundData(HashPKCE("v1"), "s1")))]
    /\ grants = {Grant("authorize_get", "", <<Tok(1)>>, BoundData(HashPKCE("v1"), "s1")),
                 Grant("authorize_post", Tok(1), <<Tok(2)>>, "c1")}
    /\ clients = [c \in {"c1"} |-> Client("app", <<"u1">>, 0 - StaleAfter - 1)]
    /\ settings = [password_hash |-> Bcrypt("pw")]
    /\ nextTok = MaxTokens - 1
    /\ w = [i \in Workers |-> Idle]
    /\ sent = NoResponse

\* The exchange and the registrations of other clients, at one instant.
NextStale ==
    \/ Flush
    \/ \E i \in Workers : Admitted(handleTokenAuthCode(i))
    \/ \E i \in Workers : StoreTokenSweep(i)
    \/ \E i \in Workers : StoreTokenInsert(i)
    \/ \E i \in Workers : TouchAndRespond(i)
    \/ \E i \in Workers : Admitted(handleRegister(i))
    \/ \E i \in Workers : RegisterCreate(i)

SpecStale == InitStale /\ [][NextStale]_vars

(* ---- the MCP tools that write chunks: store_chunk, update_chunk, delete_chunk ---- *)
\* uuid.New() of CreateChunk: identifiers are never handed out twice; stores
\* stop when the identifiers of the model are used up.
ChunkIDs == <<"k1", "k2">>
CreatedChunks == {g \in grants : g.op = "CreateChunk"}
\* What a tool call carries: a content ("" when the field is left out of
\* store_chunk, NoContent when update_chunk carries no content) and a chunk_id.
NoContent == "nil"
Contents == {"a", "b"}
\* The ids a caller can present: those a store_chunk has returned (an id is
\* not known before), one that was never generated, and the empty string.
PresentableChunkIDs ==
    ({g.out[1] : g \in CreatedChunks}
        \ {w[i].resp.id : i \in {j \in Workers : w[j].op = "store_chunk"}})
    \cup {"k0", ""}
Chunk(id, content) == [id |-> id, content |-> content]
ToolError(msg) == [error |-> msg]
\* The embedder's vector for a text.
Embed(text) == "vec:" \o text
\* Index.Add and Index.Remove, each under the mutex of the index.
IndexAdd(idx, id, vec) == [k \in DOMAIN idx \cup {id} |-> IF k = id THEN vec ELSE idx[k]]
IndexRemove(idx, id) == [k \in DOMAIN idx \ {id} |-> idx[k]]
\* A tool handler goes on to its next statement.
ToolStep(i, op, pc, req, chunk, vec) ==
    /\ w' = [w EXCEPT ![i] = [op |-> op, pc |-> pc, req |-> req, todo |-> vec,
                              resp |-> chunk, loc |-> <<>>]]
    /\ sent' = NoResponse

\* toolStoreChunk up to CreateChunk: the INSERT INTO chunks.
toolStoreChunk(i) ==
    /\ Free(i)
    /\ Cardinality(CreatedChunks) < Len(ChunkIDs)
    /\ \E content \in Contents \cup {""} :
         LET id == ChunkIDs[Cardinality(CreatedChunks) + 1]
             req == [content |-> content]
         IN  IF content = ""
             THEN /\ Reply(i, "store_chunk", req, ToolError("content is required"))
                  /\ UNCHANGED <<chunks, grants>>
             ELSE /\ chunks' = [k \in DOMAIN chunks \cup {id} |->
                                   IF k = id THEN content ELSE chunks[k]]
                  /\ grants' = grants \cup {Grant("CreateChunk", "", <<id>>, content)}
                  /\ ToolStep(i, "store_chunk", "embed", req, Chunk(id, content), content)
    /\ UNCHANGED <<now, rl, tokens, clients, settings, nextTok, index>>

\* toolUpdateChunk up to the GetChunk of UpdateChunk.
toolUpdateChunk(i) ==
    /\ Free(i)
    /\ \E req \in [chunk_id : PresentableChunkIDs,
                  content : Contents \cup {NoContent}] :
         IF req.chunk_id = ""
         THEN Reply(i, "update_chunk", req, ToolError("chunk_id is required"))
         ELSE IF req.chunk_id \notin DOMAIN chunks
         THEN Reply(i, "update_chunk", req, [found |-> FALSE])
         ELSE ToolStep(i, "update_chunk", "update", req,
                       Chunk(req.chunk_id,
                             IF req.content = NoContent THEN chunks[req.chunk_id]
                             ELSE req.content),
                       req.content)
    /\ UNCHANGED <<now, rl, tokens, clients, settings, nextTok, grants, chunks, index>>

\* UpdateChunk: UPDATE chunks SET content = ... WHERE id = ?; the rows it
\* affected are not counted, the chunk is returned either way.
UpdateChunk(i) ==
    /\ sent = NoResponse
    /\ w[i].pc = "update"
    /\ chunks' = [k \in DOMAIN chunks |-> IF k = w[i].resp.id THEN w[i].resp.content
                                          ELSE chunks[k]]
    /\ IF w[i].req.content = NoContent
       THEN Reply(i, "update_chunk", w[i].req, w[i].resp)
       ELSE ToolStep(i, "update_chunk", "embed", w[i].req, w[i].resp, w[i].todo)
    /\ UNCHANGED <<now, rl, tokens, clients, settings, nextTok, grants, index>>

\* embedder.Embed and SaveEmbedding, of store_chunk and of update_chunk.
\* Either may fail: the failure is logged and the chunk is returned.
SaveEmbedding(i) ==
    /\ sent = NoResponse
    /\ w[i].pc = "embed"
    /\ \E failed \in BOOLEAN :
         IF failed
         THEN Reply(i, w[i].op, w[i].req, w[i].resp)
         ELSE ToolStep(i, w[i].op, "add", w[i].req, w[i].resp, Embed(w[i].todo))
    /\ UNCHANGED <<now, rl, tokens, clients, settings, nextTok, grants, chunks, index>>

\* s.index.Add(chunk.ID, vecs[0]), and the chunk is returned.
IndexAddChunk(i) ==
    /\ sent = NoResponse
    /\ w[i].pc = "add"
    /\ index' = IndexAdd(index, w[i].resp.id, w[i].todo)
    /\ Reply(i, w[i].op, w[i].req, w[i].resp)
    /\ UNCHANGED <<now, rl, tokens, clients, settings, nextTok, grants, chunks>>

\* toolDeleteChunk up to DeleteChunk: DELETE FROM chunks WHERE id = ?.
toolDeleteChunk(i) ==
    /\ Free(i)
    /\ \E id \in PresentableChunkIDs :
         LET req == [chunk_id |-> id]
         IN  IF id = ""
             THEN /\ Reply(i, "delete_chunk", req, ToolError("chunk_id is required"))
                  /\ UNCHANGED chunks
             ELSE /\ chunks' = [k \in DOMAIN chunks \ {id} |-> chunks[k]]
                  /\ IF id \in DOMAIN chunks
                     THEN ToolStep(i, "delete_chunk", "remove", req, [deleted |-> TRUE], "")
                     ELSE Reply(i, "delete_chunk", req, [deleted |-> FALSE])
    /\ UNCHANGED <<now, rl, tokens, clients, settings, nextTok, grants, index>>

\* s.index.Remove(params.ChunkID), and deleted=true is returned.
IndexRemoveChunk(i) ==
    /\ sent = NoResponse
    /\ w[i].pc = "remove"
    /\ index' = IndexRemove(index, w[i].req.chunk_id)
    /\ Reply(i, "delete_chunk", w[i].req, w[i].resp)
    /\ grants' = grants \cup {Grant("delete_chunk", w[i].req.chunk_id, <<>>, TRUE)}
    /\ UNCHANGED <<now, rl, tokens, clients, settings, nextTok, chunks>>

\* An MCP server with an embedder and an empty knowledge base, as the tests
\* of the tools set it up.
InitChunks ==
    /\ now = 0
    /\ chunks = <<>> /\ index = <<>>
    /\ rl = NewIPRateLimiter(ServerRate, ServerBurst, FALSE)
    /\ tokens = [h \in {} |-> 0]
    /\ clients = [c \in {} |-> 0]
    /\ settings = NoSettings
    /\ nextTok = 1
    /\ w = [i \in Workers |-> Idle]
    /\ sent = NoResponse
    /\ grants = {}

NextChunks ==
    \/ Flush
    \/ \E i \in Workers : toolStoreChunk(i)
    \/ \E i \in Workers : toolUpdateChunk(i)
    \/ \E i \in Workers : UpdateChunk(i)
    \/ \E i \in Workers : SaveEmbedding(i)
    \/ \E i \in Workers : IndexAddChunk(i)
    \/ \E i \in Workers : toolDeleteChunk(i)
    \/ \E i \in Workers : IndexRemoveChunk(i)

SpecChunks == InitChunks /\ [][NextChunks]_vars

(* ---- everything, from a fresh server ---- *)
Next ==
    \/ Tick
    \/ Flush
    \/ \E i \in Workers : handleAuthorizeGet(i)
    \/ \E i \in Workers : Admitted(handleAuthorizePost(i))
    \/ \E i \in Workers : Admitted(handleTokenAuthCode(i))
    \/ \E i \in Workers : Admitted(handleTokenRefresh(i))
    \/ \E i \in Workers : RotateDelete(i)
    \/ \E i \in Workers : StoreTokenSweep(i)
    \/ \E i \in Workers : StoreTokenInsert(i)
    \/ \E i \in Workers : TouchAndRespond(i)
    \/ \E i \in Workers : Admitted(handleTokenRejected(i))
    \/ \E i \in Workers : requireAuth(i)

Spec == Init /\ [][Next]_vars

TypeOK ==
    /\ now \in 0..MaxTime
    /\ nextTok \in 1..(MaxTokens + 2)
    /\ DOMAIN tokens \subseteq {HashToken(Tok(n)) : n \in 1..(MaxTokens + 1)}

(* ======================= properties ======================= *)
\* The step serves a new request of this kind and answers it at once.
AnsweredAtOnce(op) == sent = NoResponse /\ sent'.op = op /\ w' = w
\* The step serves a new request of this kind and the handler goes on.
Accepted(i, op) == w[i].op = "idle" /\ w'[i].op = op

ExchangeGrants == {g \in grants : g.op = "token_auth_code"}
ExchangesOf(code) ==
    Cardinality({g \in ExchangeGrants : g.by = code})
    + Cardinality({i \in Workers : w[i].op = "token_auth_code" /\ w[i].req.code = code})

\* C2: an authorization code yields at most one successful exchange. Of all
\* the exchanges that present one code, running or answered, at most one got
\* past ConsumeToken; once a 200 was sent for the code, every other answer to
\* an exchange with that code is a 400.
C2_CodeExchangedAtMostOnce ==
    /\ \A code \in RawTokens : ExchangesOf(code) <= 1
    /\ \A g \in ExchangeGrants :
         (sent.op = "token_auth_code" /\ sent.req.code = g.by)
             => \/ sent.resp = TokenResponse(g.out[1], g.out[2])
                \/ sent.resp.status = 400

\* The exchange that succeeded is repeated with identical parameters and fails.
C2_Witness ==
    /\ sent.op = "token_auth_code"
    /\ sent.req = [code |-> Tok(2), redirect_uri |-> "u1", code_verifier |-> "v1",
                   client_id |-> "c1"]
    /\ sent.resp = WriteError(400, "invalid or expired code")
    /\ \E g \in ExchangeGrants : g.by = Tok(2)

CsrfConsumed == {g.by : g \in {x \in grants : x.op = "consumed" /\ x.bound = TokenCSRF}}
AuthorizeGrants == {g \in grants : g.op = "authorize_post"}
InvalidCSRF == WriteError(400, "invalid or expired CSRF token")

\* C3: a CSRF token is posted at most once. Once a POST /authorize has
\* consumed a CSRF token, no later POST /authorize that carries it gets past
\* the CSRF check: it is answered at once with the generic 400; and no two
\* authorization codes are minted from one CSRF token.
C3_CsrfPostedAtMostOnce ==
    [][ /\ \A c \in CsrfConsumed :
             /\ \A i \in Workers :
                    ~(Accepted(i, "authorize_post") /\ w'[i].req.csrf_token = c)
             /\ (AnsweredAtOnce("authorize_post") /\ sent'.req.csrf_token = c)
                    => sent'.resp = InvalidCSRF
        /\ \A g1, g2 \in AuthorizeGrants' : g1.by = g2.by => g1 = g2
      ]_vars

\* A code was minted from a CSRF token, and a second POST with that token
\* has just been refused.
C3_Witness ==
    /\ sent.op = "authorize_post"
    /\ sent.resp = InvalidCSRF
    /\ sent.req.password = "pw"
    /\ \E g \in AuthorizeGrants : g.by = sent.req.csrf_token

\* C4: the handler behind requireAuth runs exactly when the request carries
\* "Authorization: Bearer <t>" and the row of HashToken(t) has type Access and
\* expires_at > now when the gate looks; every other request is answered 401
\* with a WWW-Authenticate header and the handler does not run.
C4_GateAdmitsOnlyLiveAccessTokens ==
    sent.op = "mcp" =>
        LET auth == sent.req.authorization
            ran == sent.resp.body = [handler |-> "handleMCP"]
            live == \E t \in RawTokens \cup {Tok(0), ""} :
                        /\ auth = "Bearer " \o t
                        /\ HashToken(t) \in DOMAIN tokens
                        /\ tokens[HashToken(t)].type = TokenAccess
                        /\ tokens[HashToken(t)].expires_at > now
        IN  /\ ran <=> live
            /\ ~ran => /\ sent.resp.status = 401
                       /\ sent.resp.www_authenticate # ""
                       /\ sent.resp.body = NoBody

\* A request with a live access token has just been let through.
C4_Witness ==
    /\ sent.op = "mcp"
    /\ sent.resp.body = [handler |-> "handleMCP"]
    /\ sent.req.authorization = "Bearer " \o Tok(3)

RefreshGrants == {g \in grants : g.op = "token_refresh"}
\* The refresh token was presented to a refresh that got past DeleteToken.
Rotated(token) ==
    \/ \E g \in RefreshGrants : g.by = token
    \/ \E i \in Workers : /\ w[i].op = "token_refresh"
                          /\ w[i].pc # "delete"
                          /\ w[i].req.refresh_token = token

\* C5: after a successful refresh grant the presented refresh token has no
\* row left, and a refresh request that arrives with it is answered at once
\* with a 400; the refresh token the grant returned validates as a Refresh
\* token of the same client until it is itself rotated or its expiry is
\* reached.
C5_RotationReplacesRefreshToken ==
    /\ [](\A g \in RefreshGrants :
            /\ HashToken(g.by) \notin DOMAIN tokens
            /\ \/ /\ Matches(tokens, HashToken(g.out[2]), TokenRefresh, now)
                  /\ tokens[HashToken(g.out[2])].client_id = g.bound.client_id
               \/ Rotated(g.out[2])
               \/ g.bound.expires_at <= now)
    /\ [][ \A g \in RefreshGrants :
             /\ (AnsweredAtOnce("token_refresh") /\ sent'.req.refresh_token = g.by)
                    => sent'.resp.status = 400
             /\ \A i \in Workers :
                    ~(Accepted(i, "token_refresh") /\ w'[i].req.refresh_token = g.by)
         ]_vars

\* t4 was rotated into a new pair, the new refresh token validates, and a
\* second refresh with t4 has just been refused.
C5_Witness ==
    /\ sent.op = "token_refresh"
    /\ sent.req = [refresh_token |-> Tok(4), client_id |-> "c1"]
    /\ sent.resp = WriteError(400, "invalid or expired refresh_token")
    /\ \E g \in RefreshGrants :
         /\ g.by = Tok(4)
         /\ Matches(tokens, HashToken(g.out[2]), TokenRefresh, now)

\* C6: a refresh token produces at most one new access+refresh pair: no two
\* successful refresh grants present the same refresh token.
C6_RefreshTokenUsedAtMostOnce ==
    \A g1, g2 \in RefreshGrants : g1.by = g2.by => g1 = g2

\* An exchange request with all four parameters whose code has a live
\* AuthCode row: the data bound to that code.
Complete(req) ==
    req.code # "" /\ req.redirect_uri # "" /\ req.code_verifier # "" /\ req.client_id # ""
CodeLive(req) == Matches(tokens, HashToken(req.code), TokenAuthCode, now)
CodeBound(req) == tokens[HashToken(req.code)].data
BoundToCode(req) ==
    /\ CodeBound(req).client_id = req.client_id
    /\ CodeBound(req).redirect_uri = req.redirect_uri
\* The step refuses the exchange: it takes the code and stores nothing.
MintsNoTokens(req) ==
    /\ nextTok' = nextTok
    /\ tokens' = [h \in DOMAIN tokens \ {HashToken(req.code)} |-> tokens[h]]

C8_MismatchedBindingRefused ==
    [][ /\ (/\ AnsweredAtOnce("token_auth_code")
            /\ Complete(sent'.req) /\ CodeLive(sent'.req) /\ ~BoundToCode(sent'.req))
              => /\ sent'.resp.status = 400
                 /\ sent'.resp.body = NoBody
                 /\ MintsNoTokens(sent'.req)
        /\ \A i \in Workers :
             (Accepted(i, "token_auth_code") /\ CodeLive(w'[i].req))
               => BoundToCode(w'[i].req)
      ]_vars

\* The code t2, bound to client c1, was presented by client c2 with the right
\* redirect URI and the right verifier: refused.
C8_Witness ==
    /\ sent.op = "token_auth_code"
    /\ sent.req = [code |-> Tok(2), redirect_uri |-> "u1", code_verifier |-> "v1",
                   client_id |-> "c2"]
    /\ sent.resp = WriteError(400, "client_id mismatch")
    /\ \E g \in grants : g.op = "authorize_get" /\ g.bound.code_challenge = HashPKCE("v1")
    /\ DOMAIN tokens = {}

CsrfLive(req) == req.form_ok /\ Matches(tokens, HashToken(req.csrf_token), TokenCSRF, now)
PasswordVerified(req) ==
    "password_hash" \in DOMAIN settings /\ settings["password_hash"] = Bcrypt(req.password)
AuthCodes(store) == {h \in DOMAIN store : store[h].type = TokenAuthCode}

\* C9: an authorization code is minted only by a POST /authorize that
\* consumed a live CSRF token and whose password matched the stored hash, and
\* that POST is answered 302; with a live CSRF token a wrong password is
\* answered 401 and an absent password hash 500, and neither mints a code.
C9_CodeMintedOnlyAfterPassword ==
    [][ /\ \A i \in Workers :
             Accepted(i, "authorize_post")
               => /\ CsrfLive(w'[i].req)
                  /\ PasswordVerified(w'[i].req)
                  /\ w'[i].resp.status = 302
        /\ (AnsweredAtOnce("authorize_post") /\ CsrfLive(sent'.req))
              => /\ ~PasswordVerified(sent'.req)
                 /\ sent'.resp = IF "password_hash" \notin DOMAIN settings
                                 THEN WriteError(500, "password not configured")
                                 ELSE WriteError(401, "invalid password")
                 /\ nextTok' = nextTok
        /\ AnsweredAtOnce("authorize_post") => AuthCodes(tokens') \subseteq AuthCodes(tokens)
        /\ \A h \in AuthCodes(tokens') \ AuthCodes(tokens) :
             \E i \in Workers : /\ w[i].op = "authorize_post"
                                /\ w[i].pc = "insert"
                                /\ Head(w[i].todo).hash = h
        /\ (sent'.op = "authorize_post" /\ sent'.resp.status = 302)
              => /\ sent'.req.csrf_token \in CsrfConsumed
                 /\ PasswordVerified(sent'.req)
      ]_vars

\* A live CSRF token was posted with a wrong password: 401, the token is
\* consumed and the store holds no authorization code.
C9_Witness ==
    /\ sent.op = "authorize_post"
    /\ sent.resp = WriteError(401, "invalid password")
    /\ sent.req.csrf_token \in CsrfConsumed
    /\ AuthCodes(tokens) = {}

\* The data GET /authorize bound to the CSRF token of a response.
BoundAtGet(csrfToken) ==
    (CHOOSE g \in grants : g.op = "authorize_get" /\ g.out = <<csrfToken>>).bound

\* C10: the outcome of a successful POST /authorize is a function of the data
\* GET /authorize bound to the CSRF token, whatever flow fields the form
\* carries: the redirect goes to the bound redirect_uri, state is echoed
\* exactly when the bound state is non-empty, and the minted code is bound to
\* the bound client_id, redirect_uri, code_challenge and code_challenge_method.
C10_FlowParametersFromCsrfData ==
    (sent.op = "authorize_post" /\ sent.resp.status = 302) =>
        /\ \E g \in grants : g.op = "authorize_get" /\ g.out = <<sent.req.csrf_token>>
        /\ LET d == BoundAtGet(sent.req.csrf_token)
               loc == sent.resp.location
               h == HashToken(loc.code)
           IN  /\ loc.uri = d.redirect_uri
               /\ DOMAIN loc = IF d.state # "" THEN {"uri", "code", "state"}
                               ELSE {"uri", "code"}
               /\ d.state # "" => loc.state = d.state
               /\ h \in DOMAIN tokens
               /\ tokens[h].type = TokenAuthCode
               /\ tokens[h].client_id = d.client_id
               /\ tokens[h].data = CodeData(d)

\* A form that carries flow fields of its own has just been answered with the
\* redirect, and the state bound at GET /authorize is echoed.
C10_Witness ==
    /\ sent.op = "authorize_post"
    /\ sent.resp.status = 302
    /\ sent.req.extra = Tampered
    /\ sent.resp.location = [uri |-> "u1", code |-> Tok(nextTok - 1), state |-> "s1"]

\* The step is the statement of a ConsumeToken call of worker i.
ConsumeRuns(i) ==
    /\ w[i].op = "ConsumeToken"
    /\ w[i].pc = "query"
    /\ w'[i].op = "idle"
\* How many rows were ever stored for this secret: the row of the initial
\* state, if it is this secret's, and one for each StoreToken call.
RowsStored(token) ==
    (IF token = Tok(1) THEN 1 ELSE 0) + Cardinality(StoredOf(token))

\* C1: ConsumeToken(hash, T) returns the row exactly when the store holds an
\* unexpired row of type T for the hash as its statement runs, and that row
\* is gone in the same step; every other call gets the no-row error and
\* changes nothing. So of any number of concurrent calls for one stored token
\* one returns it and the others fail, no row of the hash is left, and no
\* more calls have returned a row than rows were stored.
C1_ConsumeReturnsRowToOneCaller ==
  /\ [](\A token \in StoreTokens : Cardinality(ConsumedOf(token)) <= RowsStored(token))
  /\
    [][ \A i \in Workers :
          ConsumeRuns(i) =>
            LET req == w[i].req
                R == sent'.resp
            IN  /\ sent'.op = "ConsumeToken" /\ sent'.req = req
                /\ IF Matches(tokens, req.hash, req.type, now)
                   THEN /\ R = Returned("", tokens[req.hash])
                        /\ req.hash \notin DOMAIN tokens'
                        /\ \A h \in DOMAIN tokens \ {req.hash} :
                               h \in DOMAIN tokens' /\ tokens'[h] = tokens[h]
                        /\ \A j \in Workers \ {i} :
                               (w[j].op = "ConsumeToken" /\ w[j].req.hash = req.hash)
                                   => ~Matches(tokens', w'[j].req.hash, w'[j].req.type, now')
                   ELSE /\ R = Returned(ErrNoRows, NoRow)
                        /\ tokens' = tokens
      ]_vars

\* Two calls of ConsumeToken for the live token t1 are under way together:
\* one has just returned the row, the other has yet to run its statement, and
\* no row of t1 is left for it.
C1_Witness ==
    /\ sent.op = "ConsumeToken"
    /\ sent.req.hash = HashToken(Tok(1))
    /\ sent.resp.err = ""
    /\ sent.resp.token.type = sent.req.type
    /\ \E j \in Workers : /\ w[j].op = "ConsumeToken"
                          /\ w[j].pc = "query"
                          /\ w[j].req = sent.req
    /\ HashToken(Tok(1)) \notin DOMAIN tokens

\* What GET /authorize requires of its query.
Registered(req) == req.client_id \in DOMAIN clients
RedirectRegistered(req) ==
    req.redirect_uri \in {clients[req.client_id].redirect_uris[k] :
                             k \in 1..Len(clients[req.client_id].redirect_uris)}
GetValid(req) ==
    /\ Registered(req)
    /\ RedirectRegistered(req)
    /\ req.response_type = "code"
    /\ req.code_challenge_method \in {"", "S256"}
CsrfRows(store) == {h \in DOMAIN store : store[h].type = TokenCSRF}

\* C11: GET /authorize goes on to store a CSRF token, and later answers with
\* the 200 form, only for a registered client_id, a redirect_uri equal to one
\* of the client's registered URIs, response_type 'code' and a
\* code_challenge_method that is 'S256' or empty (then bound as S256); every
\* other request is answered 400 at once, and the store is unchanged. CSRF
\* rows enter the store through this handler only.
C11_AuthorizeGetValidatesQuery ==
    [][ /\ \A i \in Workers :
             Accepted(i, "authorize_get")
               => /\ GetValid(w'[i].req)
                  /\ w'[i].resp = FormPage(Tok(nextTok))
                  /\ Head(w'[i].todo).hash = HashToken(Tok(nextTok))
                  /\ Head(w'[i].todo).row.type = TokenCSRF
                  /\ Head(w'[i].todo).row.data.code_challenge_method = "S256"
        /\ AnsweredAtOnce("authorize_get")
              => /\ ~GetValid(sent'.req)
                 /\ sent'.resp.status = 400
                 /\ sent'.resp.body = NoBody
                 /\ tokens' = tokens
                 /\ nextTok' = nextTok
        /\ \A h \in CsrfRows(tokens') \ CsrfRows(tokens) :
             \E i \in Workers : /\ w[i].op = "authorize_get"
                                /\ w[i].pc = "insert"
                                /\ Head(w[i].todo).hash = h
        /\ (sent'.op = "authorize_get" /\ sent'.resp.status = 200)
              => /\ GetValid(sent'.req)
                 /\ HashToken(sent'.resp.body.csrf_token) \in CsrfRows(tokens')
      ]_vars

\* The request that omits code_challenge_method has just been answered with
\* the form, and its CSRF token is stored with the method bound as S256.
C11_Witness ==
    /\ sent.op = "authorize_get"
    /\ sent.resp.status = 200
    /\ sent.req.code_challenge_method = ""
    /\ HashToken(sent.resp.body.csrf_token) \in CsrfRows(tokens)
    /\ tokens[HashToken(sent.resp.body.csrf_token)].data.code_challenge_method = "S256"

\* C12: a POST /authorize whose csrf_token has no live CSRF row (it is
\* missing, unknown, expired, already consumed, or the secret of a row of
\* another type) is answered with one and the same 400 'invalid or expired
\* CSRF token', whatever the password and whether or not a password is
\* configured; it mints no code and leaves the store as it is.
C12_CsrfFailuresIndistinguishable ==
    [][ /\ (/\ AnsweredAtOnce("authorize_post")
            /\ sent'.req.form_ok
            /\ ~Matches(tokens, HashToken(sent'.req.csrf_token), TokenCSRF, now))
              => /\ sent'.resp = InvalidCSRF
                 /\ tokens' = tokens
                 /\ nextTok' = nextTok
                 /\ grants' = grants
        /\ \A i \in Workers :
             Accepted(i, "authorize_post")
               => Matches(tokens, HashToken(w'[i].req.csrf_token), TokenCSRF, now)
      ]_vars

\* A live authorization code was posted as csrf_token with the right
\* password: the generic 400, and the code is still stored.
C12_Witness ==
    /\ sent.op = "authorize_post"
    /\ sent.resp = InvalidCSRF
    /\ sent.req.password = "pw"
    /\ \E g \in AuthorizeGrants : g.out = <<sent.req.csrf_token>>
    /\ Matches(tokens, HashToken(sent.req.csrf_token), TokenAuthCode, now)

\* What the gate answers to a request that carries no Authorization header.
GateFailure == Unauthorized("missing token", "Bearer realm=\"mykb\"")

\* C13: every failure of the gate is answered with the same response: status,
\* body and challenge header are those of the answer to a request without an
\* Authorization header, whatever made the request fail.
C13_GateFailuresUniform ==
    (sent.op = "mcp" /\ sent.resp.body # [handler |-> "handleMCP"])
        => sent.resp = GateFailure

\* What the exchange answers to a code that has no live AuthCode row.
InvalidCode == WriteError(400, "invalid or expired code")

\* C14: an exchange that fails because the client_id or the redirect_uri
\* differs from the value bound to its live code gets the response of a
\* generically invalid code, so that the response does not tell which check
\* failed.
C14_BindingFailureLooksLikeInvalidCode ==
    [][ (/\ AnsweredAtOnce("token_auth_code")
         /\ Complete(sent'.req) /\ CodeLive(sent'.req) /\ ~BoundToCode(sent'.req))
           => sent'.resp = InvalidCode
      ]_vars

\* The refresh request names both parameters and its token has a live
\* Refresh row that belongs to the client it names.
RefreshValid(req) ==
    /\ req.refresh_token # ""
    /\ req.client_id # ""
    /\ Matches(tokens, HashToken(req.refresh_token), TokenRefresh, now)
    /\ tokens[HashToken(req.refresh_token)].client_id = req.client_id

AdmittedKeys == {g.by : g \in {h \in grants : h.op = "next"}}
\* The first request of a key arrives now, or arrived at this very instant:
\* its bucket started the instant full.
FirstInstant(key) ==
    \A g \in grants : (g.op = "next" /\ g.by = key) => g.bound.at = now
\* The limiter has just answered for this connection.
Limited(conn) ==
    /\ sent = NoResponse
    /\ sent'.op \in {"next", "rate_limit"}
    /\ sent'.req.conn = conn

\* C17: with burst b, of the requests one key sends within one instant,
\* starting with its first, exactly the first b reach the handler and every
\* further one is answered 429 "rate limit exceeded" with a Retry-After
\* header; at no instant does a key have more than b requests admitted.
C17_BurstAdmittedThenRejected ==
    /\ [](\A key \in AdmittedKeys : \A t \in 0..MaxTime :
             Cardinality(AdmittedAt(key, t)) <= rl.burst)
    /\ [][\A conn \in Connections :
            (Limited(conn) /\ FirstInstant(KeyOf[rl.behindProxy][conn])) =>
                IF Cardinality(AdmittedAt(KeyOf[rl.behindProxy][conn], now)) < rl.burst
                THEN sent'.op = "next" /\ sent'.resp.status = 200
                ELSE /\ sent'.op = "rate_limit"
                     /\ sent'.resp.status = 429
                     /\ sent'.resp.error = "rate limit exceeded"
                     /\ sent'.resp.retry_after # ""]_vars
\* rate 1 per second, burst 2: the third request of the first instant is
\* rejected after two were admitted.
C17_Witness ==
    /\ sent.op = "rate_limit"
    /\ sent.resp = TooManyRequests
    /\ now = 0
    /\ rl.rate = 1 /\ rl.burst = 2
    /\ Cardinality(AdmittedAt(KeyOf[rl.behindProxy][sent.req.conn], 0)) = 2

\* The key the configuration asks for: the peer's IP, or the left-most
\* forwarded address when the proxy header is trusted and present.
ExpectedKey(conn) ==
    IF rl.behindProxy /\ conn.forwarded # <<>> THEN conn.forwarded[1] ELSE conn.peer_ip

\* C18: the bucket a request is counted against is the one of the peer's IP
\* when proxy trust is off (whatever X-Forwarded-For says) or the header is
\* absent, and the one of the header's left-most address when trust is on and
\* the header is present: that bucket alone is consulted and touched.
C18_LimiterKey ==
    [][\A conn \in Connections :
         Limited(conn) =>
           LET key == ExpectedKey(conn)
           IN  /\ key \in DOMAIN rl'.limiters
               /\ rl'.limiters[key].lastSeen = now
               /\ \A other \in DOMAIN rl'.limiters \ {key} :
                    other \in DOMAIN rl.limiters /\ rl'.limiters[other] = rl.limiters[other]
               /\ sent'.op = "next" =>
                    (key \in DOMAIN rl.limiters => rl'.limiters[key] # rl.limiters[key])
               /\ sent'.op = "rate_limit" =>
                    /\ key \in DOMAIN rl.limiters
                    /\ Advance(rl.limiters[key].limiter, rl.rate, rl.burst, now) < 1]_vars
\* Trust is off and a request that names another address in its header is
\* rejected on the peer's exhausted bucket; the named address has no bucket.
C18_Witness ==
    /\ sent.op = "rate_limit"
    /\ ~rl.behindProxy
    /\ sent.req.conn.forwarded # <<>>
    /\ sent.req.conn.forwarded[1] # sent.req.conn.peer_ip
    /\ sent.req.conn.forwarded[1] \notin DOMAIN rl.limiters
\* Trust is on and a request is rejected on the exhausted bucket of the
\* left-most forwarded address, which is not its peer's.
C18_WitnessBehindProxy ==
    /\ sent.op = "rate_limit"
    /\ rl.behindProxy
    /\ sent.req.conn.forwarded # <<>>
    /\ sent.req.conn.forwarded[1] # sent.req.conn.peer_ip
    /\ sent.req.conn.peer_ip \notin DOMAIN rl.limiters

(* ---- registration ---- *)
\* The submitted URI a string was written from.
PartsOf(uri) == CHOOSE u \in SubmittedURIs : FormatURI(u) = uri
\* The policy: https, or http to a loopback host; no fragment.
Loopback == {"localhost", "127.0.0.1", "::1"}
Allowed(u) ==
    /\ u.scheme = "https" \/ (u.scheme = "http" /\ u.host \in Loopback)
    /\ u.fragment = ""
Registrable(req) ==
    /\ req.decoded
    /\ Len(req.redirect_uris) > 0
    /\ \A k \in 1..Len(req.redirect_uris) : Allowed(PartsOf(req.redirect_uris[k]))

\* C20: POST /register answers 201 and has created one client, with the
\* submitted URIs, if redirect_uris is non-empty and every URI is https or
\* http to a loopback host and has no fragment; otherwise it answers 400 and
\* the clients are as they were. Only such a request gets as far as the insert.
C20_RegisterIffRedirectURIsAllowed ==
    /\ [](\A i \in Workers : w[i].op = "register" => Registrable(w[i].req))
    /\ [][(sent = NoResponse /\ sent'.op = "register") =>
            IF Registrable(sent'.req)
            THEN /\ sent'.resp.status = 201
                 /\ \E c \in DOMAIN clients' \ DOMAIN clients :
                      /\ DOMAIN clients' = DOMAIN clients \cup {c}
                      /\ clients'[c].redirect_uris = sent'.req.redirect_uris
                      /\ sent'.resp.body.client_id = c
            ELSE /\ sent'.resp.status = 400
                 /\ clients' = clients]_vars
\* A registration with an https URI and an http URI to the IPv6 loopback
\* address has been answered 201, and the client is there.
C20_Witness ==
    /\ sent.op = "register"
    /\ sent.resp.status = 201
    /\ sent.req.redirect_uris = <<"https://app.example/cb", "http://[::1]:8080/cb">>
    /\ sent.resp.body.client_id \in DOMAIN clients
    /\ "c0" \notin DOMAIN clients

(* ---- the limiter in front of the routes ---- *)
\* What the handlers behind the limiter answer or go on as.
LimitedOps == {"register", "authorize_post", "token_auth_code", "token_refresh", "token"}
\* A handler behind the limiter takes up a request in this step.
HandlerStarts ==
    \E op \in LimitedOps : AnsweredAtOnce(op) \/ \E i \in Workers : Accepted(i, op)
\* One key has given a permit in this step.
PermitTaken ==
    \E key \in DOMAIN rl'.limiters :
        /\ Advance(GetLimiter(rl, key, now), rl.rate, rl.burst, now) >= 1
        /\ rl'.limiters[key].limiter.tokens =
               Advance(GetLimiter(rl, key, now), rl.rate, rl.burst, now) - 1
\* The limiter has turned a request away in this step.
Denied == sent = NoResponse /\ sent'.op = "rate_limit"
\* The secret a request carries, if any, with the type its handler asks for.
Carried(route, req) ==
    IF route = "authorize_post" THEN {<<req.csrf_token, TokenCSRF>>}
    ELSE IF route = "token" /\ "code" \in DOMAIN req THEN {<<req.code, TokenAuthCode>>}
    ELSE IF route = "token" /\ "refresh_token" \in DOMAIN req
    THEN {<<req.refresh_token, TokenRefresh>>}
    ELSE {}

\* C19: on POST /register, POST /authorize and POST /token a handler takes up
\* a request only in a step in which the limiter gave a permit; a request the
\* limiter turns away is answered 429, no handler takes it up, and the token
\* store and the clients are as before: the CSRF token, code or refresh token
\* it carries is still live if it was.
C19_DeniedRequestChangesNothing ==
    [][/\ HandlerStarts => PermitTaken
       /\ Denied =>
            /\ sent'.resp.status = 429
            /\ sent'.req.route \in {"register", "authorize_post", "token"}
            /\ ~HandlerStarts
            /\ w' = w
            /\ tokens' = tokens
            /\ clients' = clients
            /\ \A c \in Carried(sent'.req.route, sent'.req.req) :
                 Matches(tokens, HashToken(c[1]), c[2], now)
                     => Matches(tokens', HashToken(c[1]), c[2], now)]_vars
\* A login with the right password and a live CSRF token has been turned
\* away, and the CSRF token is still live.
C19_Witness ==
    /\ sent.op = "rate_limit"
    /\ sent.req.route = "authorize_post"
    /\ sent.req.req.form_ok
    /\ sent.req.req.password = "pw"
    /\ Matches(tokens, HashToken(sent.req.req.csrf_token), TokenCSRF, now)
    /\ sent.req.conn.peer_ip = "10.0.0.1"

(* ---- stale clients ---- *)
\* The client was last used more than 90 days before now.
Stale(c) == clients[c].last_used_at + StaleAfter < now
\* C21: the sweep of a registration removes the clients last used more than
\* 90 days ago, all of them and no others, and changes no other client; no
\* step removes a client used within the last 90 days, and a client that a
\* registration has created is there when the registration is answered.
C21_SweepRemovesExactlyStaleClients ==
    [][/\ (\E i \in Workers : Accepted(i, "register")) =>
            DOMAIN clients' = {c \in DOMAIN clients : ~Stale(c)}
       /\ \A c \in DOMAIN clients :
            ~Stale(c) => (c \in DOMAIN clients' /\ clients'[c] = clients[c])
       /\ (sent = NoResponse /\ sent'.op = "register" /\ sent'.resp.status = 201) =>
            sent'.resp.body.client_id \in DOMAIN clients']_vars
\* A registration has swept the client last used 90 days and one unit ago,
\* kept the one last used exactly 90 days ago, and created its own.
C21_Witness ==
    /\ sent.op = "register"
    /\ sent.resp.status = 201
    /\ "c0" \notin DOMAIN clients
    /\ "c9" \in DOMAIN clients
    /\ now = 0
    /\ sent.resp.body.client_id \in DOMAIN clients
\* Time has moved on and a later registration has swept that client as well,
\* while a client registered before it stays.
C21_WitnessLater ==
    /\ "c9" \notin DOMAIN clients
    /\ "c2" \in DOMAIN clients
    /\ "c3" \in DOMAIN clients

(* ---- the store's calls, one by one ---- *)
\* The call has returned in this step.
ReturnedFrom(call) == sent = NoResponse /\ sent'.op = call
\* The row of the hash is there, has the type asked for and expires later
\* than now.
LiveAs(hash, typ) ==
    \E h \in DOMAIN tokens :
        h = hash /\ tokens[h].type = typ /\ ~(tokens[h].expires_at <= now)

\* C22: ValidateToken leaves the token store as it is, whatever it is asked
\* for; it returns the row for a stored hash of the stored type that has not
\* expired, and sql.ErrNoRows for an absent hash, another type or an expired
\* row.
C22_ValidateTokenReadOnly ==
    [][ReturnedFrom("ValidateToken") =>
         /\ tokens' = tokens
         /\ IF LiveAs(sent'.req.hash, sent'.req.type)
            THEN sent'.resp = Returned("", tokens[sent'.req.hash])
            ELSE sent'.resp = Returned(ErrNoRows, NoRow)]_vars
\* ValidateToken has found the token, and the token is still there and live.
C22_Witness ==
    /\ sent.op = "ValidateToken"
    /\ sent.resp.err = ""
    /\ LiveAs(sent.req.hash, sent.req.type)
\* ValidateToken has refused a stored token for its type, and one for its
\* expiry.
C22_WitnessWrongType ==
    /\ sent.op = "ValidateToken"
    /\ sent.resp.err = ErrNoRows
    /\ sent.req.hash \in DOMAIN tokens
    /\ tokens[sent.req.hash].type # sent.req.type
    /\ tokens[sent.req.hash].expires_at > now
C22_WitnessExpired ==
    /\ sent.op = "ValidateToken"
    /\ sent.resp.err = ErrNoRows
    /\ sent.req.hash \in DOMAIN tokens
    /\ tokens[sent.req.hash].type = sent.req.type
    /\ tokens[sent.req.hash].expires_at = now

(* ---- the sweep of StoreToken ---- *)
\* The DELETE of a StoreToken call runs in this step.
Sweeps(i) == w[i].pc = "sweep" /\ w'[i].pc = "insert"
\* The INSERT OR REPLACE of a StoreToken call runs in this step.
Inserts(i) == w[i].pc = "insert" /\ w'[i].pc # "insert"

C24_OneRowPerHash ==
    [][\A i \in Workers :
         Inserts(i) =>
           LET p == Head(w[i].todo)
           IN  /\ tokens'[p.hash].type = p.row.type
               /\ tokens'[p.hash].client_id = p.row.client_id
               /\ tokens'[p.hash].expires_at = p.row.expires_at
               /\ tokens'[p.hash].data = p.row.data
               /\ Cardinality(DOMAIN tokens') =
                      IF p.hash \in DOMAIN tokens THEN Cardinality(DOMAIN tokens)
                      ELSE Cardinality(DOMAIN tokens) + 1]_vars
\* StoreToken has returned for the hash of t1, which was stored for client c2
\* with bound data: the row is now the caller's, and it is the only one.
C24_Witness ==
    /\ sent.op = "StoreToken"
    /\ sent.req.hash = HashToken(Tok(1))
    /\ now = 0
    /\ DOMAIN tokens = {HashToken(Tok(1))}
    /\ tokens[HashToken(Tok(1))] = Row(sent.req.type, "c1", 1, NilData)

(* ---- storage errors ---- *)
\* The INSERT of a StoreToken call has failed in this step: the call is over
\* and the row is not there.
InsertFailed(i) == Inserts(i) /\ Head(w[i].todo).hash \notin DOMAIN tokens'
\* The DELETE of the rotation has failed in this step: the handler is past it
\* and the row is still there.
DeleteFailed(i) ==
    /\ w[i].pc = "delete"
    /\ w'[i].pc # "delete"
    /\ HashToken(w[i].req.refresh_token) \in DOMAIN tokens
    /\ HashToken(w[i].req.refresh_token) \in DOMAIN tokens'

\* C25: when a storage statement fails while a handler serves a request, the
\* handler stops there and answers with a 500-class status.
C25_StorageFailureAnswered500 ==
    [][\A i \in Workers :
         (InsertFailed(i) \/ DeleteFailed(i)) =>
             /\ w'[i].op = "idle"
             /\ sent'.resp.status >= 500]_vars

(* ---- the bucket over time ---- *)
\* The requests of a key that were admitted from time t1 to time t2.
AdmittedBetween(key, t1, t2) ==
    {g \in grants : g.op = "next" /\ g.by = key /\ g.bound.at >= t1 /\ g.bound.at <= t2}

\* C26: with 0.1 permits per second and burst 3, a bucket never holds more
\* than 3 permits, and over any T units of ten seconds a key has at most
\* 3 + T requests admitted, whether or not the cleanup has dropped its bucket
\* in between.
C26_AdmittedAtMostBurstPlusRate ==
    /\ \A key \in DOMAIN rl.limiters :
         /\ rl.limiters[key].limiter.tokens <= 3
         /\ Advance(rl.limiters[key].limiter, rl.rate, rl.burst, now) <= 3
    /\ \A key \in AdmittedKeys : \A t1 \in 0..MaxTime : \A t2 \in t1..MaxTime :
         Cardinality(AdmittedBetween(key, t1, t2)) <= 3 + (t2 - t1)
\* The cleanup dropped the bucket of 10.0.0.1 at time 1; a request re-created
\* it, three requests were admitted at once and one more ten seconds later.
C26_Witness ==
    /\ now = 2
    /\ Grant("evicted", "10.0.0.1", <<>>, [at |-> 1]) \in grants
    /\ Cardinality(AdmittedBetween("10.0.0.1", 1, 1)) = 3
    /\ Cardinality(AdmittedBetween("10.0.0.1", 2, 2)) = 1
\* Without any cleanup: three requests at once, then one every ten seconds.
C26_WitnessTight ==
    /\ now = 2
    /\ Cardinality(AdmittedBetween("::1", 0, 0)) = 3
    /\ Cardinality(AdmittedBetween("::1", 0, 2)) = 5

(* ---- the warning about an untrusted header ---- *)
\* C27: the warning is in the log at most once; a request that carries the
\* header while the header is not trusted finds it there, or writes it, before
\* it gets to Allow; it is not in the log while the header is trusted, and
\* each warning was caused by a request that carried the header.
C27_WarnedExactlyOnce ==
    /\ Cardinality(Warnings) <= 1
    /\ rl.behindProxy => Warnings = {}
    /\ \A g \in Warnings : g.bound.xff # ""
    /\ rl.warnedProxy <=> Warnings # {}
    /\ \A i \in Workers :
         (w[i].op = "rate_limit" /\ w[i].pc = "allow" /\ w[i].req.xff # "" /\ ~rl.behindProxy)
             => Cardinality(Warnings) = 1
\* Two requests with the header are past the unlocked read at once, with the
\* header not trusted: one has written the warning, the other is about to take
\* the mutex.
C27_Witness ==
    /\ ~rl.behindProxy
    /\ Cardinality(Warnings) = 1
    /\ \E i \in Workers : \E j \in Workers :
         /\ w[i].op = "rate_limit" /\ w[i].pc = "allow" /\ w[i].req.xff # ""
         /\ w[j].op = "rate_limit" /\ w[j].pc = "warn"

(* ---- last_used_at ---- *)
\* The step is the last one of an authorization_code exchange or of a refresh
\* for client c: TouchClient, then the 200 response.
TouchedBy(i, c) ==
    /\ w[i].pc = "touch"
    /\ w[i].op \in {"token_auth_code", "token_refresh"}
    /\ w[i].loc.client_id = c
    /\ sent'.op = w[i].op
    /\ sent'.resp.status = 200
\* C28: the last_used_at of a client changes only in the step that completes
\* an exchange or a refresh for that client with a 200 response, it is then
\* the current time, and it never decreases; every other step (registration,
\* GET and POST /authorize, a refused /token request) leaves it as it was.
C28_LastUsedChangesOnlyOnGrant ==
    [][\A c \in DOMAIN clients \cap DOMAIN clients' :
          /\ clients'[c].last_used_at >= clients[c].last_used_at
          /\ clients'[c].last_used_at # clients[c].last_used_at
                => /\ \E i \in Workers : TouchedBy(i, c)
                   /\ clients'[c].last_used_at = now
          /\ (\E i \in Workers : TouchedBy(i, c)) => clients'[c].last_used_at = now]_vars
\* A refresh for client c1 has completed after the clock moved, client c2 is
\* as it was, and a client has been registered.
C28_Witness ==
    /\ clients["c1"].last_used_at = MaxTime
    /\ clients["c2"].last_used_at = MaxTime - 2
    /\ "c3" \in DOMAIN clients
    /\ clients["c3"].last_used_at = MaxTime
    /\ \E g \in grants : g.op = "token_refresh" /\ g.by = Tok(4)
\* An authorization code has been issued to client c1 by POST /authorize and
\* the client's last_used_at is as it was.
C28_WitnessAuthorize ==
    /\ clients["c1"].last_used_at = MaxTime - 2
    /\ \E g \in grants : g.op = "authorize_post" /\ g.by # Tok(5)

(* ---- token types ---- *)
\* The secret has a row and the row was stored with this type.
StoredAs(token, typ) ==
    \E h \in DOMAIN tokens : h = HashToken(token) /\ tokens[h].type = typ
Unexpired(token) ==
    \E h \in DOMAIN tokens : h = HashToken(token) /\ ~(tokens[h].expires_at <= now)
\* The bearer token of a POST /mcp request the gate has just let through.
Admits(token) ==
    /\ ReturnedFrom("mcp")
    /\ sent'.req.authorization = "Bearer " \o token
    /\ sent'.resp.body = [handler |-> "handleMCP"]
\* C29: a token passes only where its stored type is the type asked for.  The
\* refresh grant goes on only with a token stored as Refresh, the exchange
\* only with one stored as AuthCode, POST /authorize only with one stored as
\* CSRF, and the gate of POST /mcp admits only one stored as Access; when
\* the ConsumeToken call of POST /authorize or of the exchange asks for a type
\* that differs from the stored one, or for a row that has expired, the
\* request is answered with the 400 of an invalid token and the store is left
\* as it is, and so it is when ValidateToken refuses a refresh.
C29_TokenPassesOnlyAsItsType ==
    [][ /\ \A i \in Workers :
             /\ Accepted(i, "token_refresh")
                    => StoredAs(w'[i].req.refresh_token, TokenRefresh)
             /\ Accepted(i, "token_auth_code") => StoredAs(w'[i].req.code, TokenAuthCode)
             /\ Accepted(i, "authorize_post") => StoredAs(w'[i].req.csrf_token, TokenCSRF)
        /\ \A token \in RawTokens : Admits(token) => StoredAs(token, TokenAccess)
        /\ (/\ AnsweredAtOnce("authorize_post")
            /\ sent'.req.form_ok
            /\ ~(StoredAs(sent'.req.csrf_token, TokenCSRF) /\ Unexpired(sent'.req.csrf_token)))
              => sent'.resp = InvalidCSRF /\ tokens' = tokens
        /\ (/\ AnsweredAtOnce("token_auth_code")
            /\ Complete(sent'.req)
            /\ ~(StoredAs(sent'.req.code, TokenAuthCode) /\ Unexpired(sent'.req.code)))
              => sent'.resp = InvalidCode /\ tokens' = tokens
        /\ (/\ AnsweredAtOnce("token_refresh")
            /\ ~(StoredAs(sent'.req.refresh_token, TokenRefresh)
                 /\ Unexpired(sent'.req.refresh_token)))
              => sent'.resp.status = 400 /\ tokens' = tokens
      ]_vars
\* The live access token has just been refused by the refresh grant, and the
\* four rows are still there.
C29_Witness ==
    /\ sent.op = "token_refresh"
    /\ sent.req = [refresh_token |-> Tok(5), client_id |-> "c1"]
    /\ sent.resp.status = 400
    /\ StoredAs(Tok(5), TokenAccess) /\ Unexpired(Tok(5))
    /\ Cardinality(DOMAIN tokens) = 4
\* The live refresh token has just been refused by the gate.
C29_WitnessGate ==
    /\ sent.op = "mcp"
    /\ sent.req.authorization = "Bearer " \o Tok(6)
    /\ sent.resp.status = 401
    /\ StoredAs(Tok(6), TokenRefresh) /\ Unexpired(Tok(6))
\* The live access token has just been posted to /authorize as csrf_token
\* with the right password: ConsumeToken(hash, CSRF) found no row, and the
\* four rows are still there.
C29_WitnessConsume ==
    /\ sent.op = "authorize_post"
    /\ sent.req.csrf_token = Tok(5) /\ sent.req.password = "pw"
    /\ sent.resp = InvalidCSRF
    /\ StoredAs(Tok(5), TokenAccess) /\ Unexpired(Tok(5))
    /\ Cardinality(DOMAIN tokens) = 4
\* The authorization code has just been presented to the exchange at its
\* expiry time: ConsumeToken(hash, AuthCode) found no row and the expired row
\* is still there.
C29_WitnessExpired ==
    /\ sent.op = "token_auth_code"
    /\ sent.req.code = Tok(3) /\ Complete(sent.req)
    /\ sent.resp = InvalidCode
    /\ StoredAs(Tok(3), TokenAuthCode) /\ ~Unexpired(Tok(3))

(* ---- the two comparisons with the clock ---- *)
ExpiresAt(token) == tokens[HashToken(token)].expires_at
\* The row of the secret is deleted in this step.
ConsumedNow(token) ==
    \E h \in DOMAIN tokens : h = HashToken(token) /\ h \notin DOMAIN tokens'
\* The step is POST /authorize with this CSRF token, past the form.
PostsCsrf(token) ==
    \/ AnsweredAtOnce("authorize_post") /\ sent'.req.form_ok /\ sent'.req.csrf_token = token
    \/ \E i \in Workers : Accepted(i, "authorize_post") /\ w'[i].req.csrf_token = token
\* The step is an exchange of this code with every parameter present.
ExchangesCode(token) ==
    \/ AnsweredAtOnce("token_auth_code") /\ Complete(sent'.req) /\ sent'.req.code = token
    \/ \E i \in Workers : Accepted(i, "token_auth_code") /\ w'[i].req.code = token
\* The step answers a refresh with this token by the client it was issued to.
RefusesRefresh(token) ==
    /\ AnsweredAtOnce("token_refresh")
    /\ sent'.req.refresh_token = token
    /\ sent'.req.client_id = tokens[HashToken(token)].client_id
\* C30: a stored token of the type asked for is accepted exactly when its
\* expires_at is greater than now: the gate admits an access token, POST
\* /authorize consumes a CSRF token, the exchange consumes a code and the
\* refresh grant goes on with a refresh token if and only if expires_at > now,
\* so that each of them is refused at its expiry time and later; the sweep of
\* StoreToken deletes exactly the rows with expires_at < now, hence none that
\* would still be accepted.
C30_AcceptedIffExpiresAfterNow ==
    [][ /\ \A token \in RawTokens :
             /\ StoredAs(token, TokenAccess)
                  => /\ Admits(token) => ExpiresAt(token) > now
                     /\ (/\ ReturnedFrom("mcp")
                         /\ sent'.req.authorization = "Bearer " \o token
                         /\ ExpiresAt(token) > now)
                           => sent'.resp.body = [handler |-> "handleMCP"]
             /\ (StoredAs(token, TokenCSRF) /\ PostsCsrf(token))
                  => (ConsumedNow(token) <=> ExpiresAt(token) > now)
             /\ (StoredAs(token, TokenAuthCode) /\ ExchangesCode(token))
                  => (ConsumedNow(token) <=> ExpiresAt(token) > now)
             /\ StoredAs(token, TokenRefresh)
                  => /\ \A i \in Workers :
                          (Accepted(i, "token_refresh") /\ w'[i].req.refresh_token = token)
                              => ExpiresAt(token) > now
                     /\ RefusesRefresh(token) => ~(ExpiresAt(token) > now)
        /\ \A i \in Workers :
             Sweeps(i) =>
                /\ DOMAIN tokens \ DOMAIN tokens'
                      = {h \in DOMAIN tokens : tokens[h].expires_at < now}
                /\ \A h \in DOMAIN tokens :
                      tokens[h].expires_at > now
                          => \E k \in DOMAIN tokens' : k = h /\ tokens'[k] = tokens[h]
      ]_vars
\* The access token has just been refused by the gate at its expiry time;
\* its row is still stored, although a sweep at this time has deleted the
\* CSRF token and the code, which expired earlier and were never consumed.
C30_Witness ==
    /\ sent.op = "mcp"
    /\ sent.req.authorization = "Bearer " \o Tok(5)
    /\ sent.resp.status = 401
    /\ StoredAs(Tok(5), TokenAccess)
    /\ ExpiresAt(Tok(5)) = now
    /\ HashToken(Tok(1)) \notin DOMAIN tokens
    /\ HashToken(Tok(3)) \notin DOMAIN tokens
    /\ \A g \in grants : g.op # "consumed"
\* The refresh token has just been accepted one unit before its expiry time.
C30_WitnessLastUnit ==
    /\ \E i \in Workers :
         /\ w[i].op = "token_refresh"
         /\ w[i].req.refresh_token = Tok(6)
         /\ w[i].pc = "delete"
    /\ StoredAs(Tok(6), TokenRefresh)
    /\ ExpiresAt(Tok(6)) = now + 1

(* ---- tokens descend from a verified password ---- *)
\* The codes POST /authorize has issued, each after one password check.
VerifiedCodes == {g.out[1] : g \in AuthorizeGrants}
\* The refresh tokens the two grants have issued.
IssuedRefreshTokens == {g.out[2] : g \in ExchangeGrants \cup RefreshGrants}
\* The secrets of the Access and Refresh rows a grant is about to answer with.
InFlightPairs ==
    UNION {{w[i].resp.body.access_token, w[i].resp.body.refresh_token} :
             i \in {j \in Workers : w[j].op \in {"token_auth_code", "token_refresh"}}}
IssuedPairs == UNION {{g.out[1], g.out[2]} : g \in ExchangeGrants \cup RefreshGrants}
\* C31: no more token pairs have been minted by the authorization_code grant
\* than passwords were verified by POST /authorize, each of those pairs was
\* minted for a code that such a POST issued, each pair minted by the refresh
\* grant was minted for a refresh token of an earlier pair, and every Access
\* or Refresh row belongs to one of these pairs or to a grant that is under
\* way; POST /authorize goes on to issue a code only with the password that
\* matches the stored hash.
C31_TokensDescendFromVerifiedPassword ==
    /\ [](/\ Cardinality(ExchangeGrants) <= Cardinality(AuthorizeGrants)
          /\ \A g \in ExchangeGrants : g.by \in VerifiedCodes
          /\ \A i \in Workers : w[i].op = "token_auth_code" => w[i].req.code \in VerifiedCodes
          /\ \A g \in RefreshGrants : g.by \in IssuedRefreshTokens
          /\ \A i \in Workers :
                w[i].op = "token_refresh" => w[i].req.refresh_token \in IssuedRefreshTokens
          /\ \A h \in DOMAIN tokens :
                tokens[h].type \in {TokenAccess, TokenRefresh}
                    => \E t \in IssuedPairs \cup InFlightPairs : h = HashToken(t))
    /\ [][\A i \in Workers :
            Accepted(i, "authorize_post") => PasswordVerified(w'[i].req)]_vars
\* Both passwords checks succeeded, one code was exchanged and the pair was
\* refreshed.
C31_Witness ==
    /\ Cardinality(AuthorizeGrants) = 2
    /\ Cardinality(ExchangeGrants) = 1
    /\ Cardinality(RefreshGrants) = 1
    /\ \E h \in DOMAIN tokens : tokens[h].type = TokenAccess

(* ---- a failed exchange spends the code ---- *)
CodesConsumed == {g.by : g \in {x \in grants : x.op = "consumed" /\ x.bound = TokenAuthCode}}
\* C32: an exchange that presents a live code with every parameter present
\* deletes the code's row in that step, whether it goes on or is answered 400
\* for its client_id, its redirect_uri or its code_verifier; from then on
\* every exchange that presents the code is answered at once with 'invalid or
\* expired code', whatever its other parameters.
C32_FailedExchangeSpendsCode ==
    [][\A code \in RawTokens :
         /\ (ExchangesCode(code) /\ StoredAs(code, TokenAuthCode) /\ Unexpired(code))
               => /\ ConsumedNow(code)
                  /\ code \in CodesConsumed'
         /\ code \in CodesConsumed
               => /\ \A i \in Workers :
                        ~(Accepted(i, "token_auth_code") /\ w'[i].req.code = code)
                  /\ (AnsweredAtOnce("token_auth_code") /\ Complete(sent'.req)
                        /\ sent'.req.code = code)
                         => sent'.resp = InvalidCode /\ tokens' = tokens
      ]_vars
\* The code was spent by an exchange that failed: the exchange with the
\* right client_id, redirect_uri and code_verifier has just been answered
\* 'invalid or expired code' before the code's expiry time, and no exchange of
\* this code ever succeeded.
C32_Witness ==
    /\ sent.op = "token_auth_code"
    /\ sent.req = [code |-> Tok(2), redirect_uri |-> "u1", code_verifier |-> "v1",
                   client_id |-> "c1"]
    /\ sent.resp = InvalidCode
    /\ \E g \in grants : g.op = "authorize_get" /\ g.bound.code_challenge = HashPKCE("v1")
    /\ Tok(2) \in CodesConsumed
    /\ ExchangeGrants = {}
    /\ \A i \in Workers : w[i].op = "idle"
    /\ now < CodeExpiry

(* ---- a failed password attempt spends the CSRF token ---- *)
\* C33: a POST /authorize that presents a live CSRF token deletes the token's
\* row in that step, also when it is then answered 401 for a wrong password
\* or 500 because no password is configured; from then on every POST that
\* presents the token, with whatever password, is answered at once with the
\* 400 of an invalid or expired CSRF token and issues no code.
C33_FailedPasswordSpendsCsrf ==
    [][\A token \in RawTokens :
         /\ (PostsCsrf(token) /\ StoredAs(token, TokenCSRF) /\ Unexpired(token))
               => /\ ConsumedNow(token)
                  /\ token \in CsrfConsumed'
                  /\ (AnsweredAtOnce("authorize_post") /\ HasPasswordHash(settings))
                        => sent'.resp = WriteError(401, "invalid password")
                  /\ (AnsweredAtOnce("authorize_post") /\ ~HasPasswordHash(settings))
                        => sent'.resp = WriteError(500, "password not configured")
         /\ (token \in CsrfConsumed /\ PostsCsrf(token))
               => /\ AnsweredAtOnce("authorize_post")
                  /\ sent'.resp = InvalidCSRF
                  /\ tokens' = tokens /\ nextTok' = nextTok
      ]_vars
\* The CSRF token was spent by a POST with a wrong password: the POST with
\* the configured password has just been answered with the 400, at the time
\* the form was fetched, and no code was ever issued.
C33_Witness ==
    /\ sent.op = "authorize_post"
    /\ sent.req.form_ok /\ sent.req.password = "pw"
    /\ sent.req.csrf_token \in CsrfConsumed
    /\ sent.resp = InvalidCSRF
    /\ HasPasswordHash(settings)
    /\ AuthorizeGrants = {}
    /\ \A i \in Workers : w[i].op = "idle"
    /\ now = 0
\* The same where no password is configured.
C33_WitnessNotConfigured ==
    /\ sent.op = "authorize_post"
    /\ sent.req.form_ok /\ sent.req.password = "pw"
    /\ sent.req.csrf_token \in CsrfConsumed
    /\ sent.resp = InvalidCSRF
    /\ ~HasPasswordHash(settings)
    /\ now = 0

(* ---- a refresh by the wrong client ---- *)
WrongClient == WriteError(400, "invalid refresh_token")
\* The request presents a live refresh token under a client_id other than
\* the one the token was issued to.
Foreign(req) ==
    /\ req.client_id # ""
    /\ StoredAs(req.refresh_token, TokenRefresh) /\ Unexpired(req.refresh_token)
    /\ tokens[HashToken(req.refresh_token)].client_id # req.client_id
\* C34: a refresh that presents a live refresh token under another client's
\* client_id is answered at once with 400 'invalid refresh_token' and leaves
\* the token store as it is, the row of the presented token included; right
\* after that answer the token is still a live Refresh row of its owner, and a
\* refresh that presents a live token under its owner's client_id is never
\* refused.
C34_WrongClientLeavesRefreshToken ==
    /\ [](sent.op = "token_refresh" /\ sent.resp = WrongClient => Foreign(sent.req))
    /\ [][ /\ (AnsweredAtOnce("token_refresh") /\ Foreign(sent'.req))
                => /\ sent'.resp = WrongClient
                   /\ tokens' = tokens
                   /\ nextTok' = nextTok
           /\ \A i \in Workers :
                Accepted(i, "token_refresh") => ~Foreign(w'[i].req)
           /\ AnsweredAtOnce("token_refresh") => ~RefreshValid(sent'.req)
         ]_vars
\* Client c2 has just been refused with c1's refresh token; the row is as it
\* was stored.
C34_Witness ==
    /\ sent.op = "token_refresh"
    /\ sent.req = [refresh_token |-> Tok(4), client_id |-> "c2"]
    /\ sent.resp = WrongClient
    /\ RefreshValid([refresh_token |-> Tok(4), client_id |-> "c1"])
    /\ tokens[HashToken(Tok(4))] = Row(TokenRefresh, "c1", RefreshTokenExpiry - 1, NilData)

(* ---- what a refresh deletes ---- *)
\* The DeleteToken of a refresh that presented the token of this hash runs
\* in this step.
RotatesNow(h) ==
    \E i \in Workers :
        /\ w[i].op = "token_refresh" /\ w[i].pc = "delete" /\ w'[i].pc # "delete"
        /\ h = HashToken(w[i].req.refresh_token)
RefreshFails(i) ==
    /\ w[i].op = "token_refresh"
    /\ w'[i].op = "idle"
    /\ sent'.op = "token_refresh"
    /\ sent'.resp.status >= 400
\* C36: a refresh that is answered with an error leaves the presented refresh
\* token as it was when the request arrived: a request refused at once
\* changes nothing, and when a later step of the refresh fails the token is
\* still stored as a Refresh row of its client.
C36_FailedRefreshKeepsToken ==
    [][ /\ (AnsweredAtOnce("token_refresh") /\ sent'.resp.status >= 400) => tokens' = tokens
        /\ \A i \in Workers :
             RefreshFails(i)
                => \E h \in DOMAIN tokens' :
                      /\ h = HashToken(w[i].req.refresh_token)
                      /\ tokens'[h].type = TokenRefresh
                      /\ tokens'[h].client_id = w[i].req.client_id
      ]_vars

(* ---- tokens and the clients they belong to ---- *)
\* C37: every unexpired Access or Refresh row is owned by a client that is
\* registered.
C37_LiveTokensHaveClient ==
    \A h \in DOMAIN tokens :
        (tokens[h].type \in {TokenAccess, TokenRefresh} /\ tokens[h].expires_at > now)
            => \E c \in DOMAIN clients : c = tokens[h].client_id

(* ---- PKCE: a code bound to an empty challenge ---- *)
\* A server with one client and a password; four secrets are left, enough
\* for one CSRF token, one code and one pair of tokens.
InitPkce ==
    /\ now = 0
    /\ chunks = <<>> /\ index = <<>>
    /\ rl = NewIPRateLimiter(ServerRate, ServerBurst, FALSE)
    /\ tokens = [h \in {} |-> 0]
    /\ clients = [c \in {"c1"} |-> Client("app", <<"u1">>, 0)]
    /\ settings = [password_hash |-> Bcrypt("pw")]
    /\ nextTok = MaxTokens - 3
    /\ w = [i \in Workers |-> Idle]
    /\ sent = NoResponse
    /\ grants = {}

\* The authorization code flow from GET /authorize to the exchange, at one
\* instant.
NextPkce ==
    \/ Flush
    \/ \E i \in Workers : handleAuthorizeGet(i)
    \/ \E i \in Workers : Admitted(handleAuthorizePost(i))
    \/ \E i \in Workers : Admitted(handleTokenAuthCode(i))
    \/ \E i \in Workers : StoreTokenSweep(i)
    \/ \E i \in Workers : StoreTokenInsert(i)
    \/ \E i \in Workers : TouchAndRespond(i)

SpecPkce == InitPkce /\ [][NextPkce]_vars

\* The codes that descend from a GET /authorize without a code_challenge.
UnboundCodes ==
    {gp.out[1] : gp \in {x \in AuthorizeGrants :
        \E gg \in grants : /\ gg.op = "authorize_get"
                            /\ gg.out = <<x.by>>
                            /\ gg.bound.code_challenge = ""}}

\* C38: PKCE cannot be bypassed by leaving the challenge out. GET /authorize
\* takes a request with an empty code_challenge, but no exchange goes on to
\* issue tokens for a code whose bound code_challenge is empty, whatever the
\* code_verifier; no token grant is ever recorded for such a code.
C38_EmptyChallengeNeverExchanges ==
    /\ [](\A g \in ExchangeGrants : g.by \notin UnboundCodes)
    /\ [][\A i \in Workers :
            Accepted(i, "token_auth_code")
                => Get(tokens[HashToken(w'[i].req.code)].data, "code_challenge") # ""]_vars
\* GET /authorize accepted an empty challenge, the password was verified and
\* the exchange of the resulting code, complete and bound to the right client
\* and redirect_uri, was refused for its code_verifier.
C38_Witness ==
    /\ sent # NoResponse
    /\ sent.op = "token_auth_code"
    /\ sent.req.code \in UnboundCodes
    /\ sent.req.code_verifier # ""
    /\ sent.resp = WriteError(400, "invalid code_verifier")

(* ---- the buckets of different keys ---- *)
\* Every key a connection of the model can be counted against.
LimiterKeys == {KeyOf[behindProxy][conn] : behindProxy \in BOOLEAN, conn \in Connections}
\* The permits a key can draw on now: those of its own bucket, refilled up to
\* now, or a full burst when it has no bucket yet.
OwnPermits(key) ==
    IF key \in DOMAIN rl.limiters
    THEN Advance(rl.limiters[key].limiter, rl.rate, rl.burst, now)
    ELSE rl.burst

\* C39: the buckets are independent per key. A request of one key, admitted
\* or rejected, creates no bucket for another key, removes none and leaves
\* the permits every other key can draw on as they were; whether it is
\* admitted is decided by the permits of its own key alone; and the first
\* request of a key is admitted and leaves a bucket of the full burst less
\* the one permit it took.
C39_BucketsIndependentPerKey ==
    [][\A conn \in Connections :
         Limited(conn) =>
           LET key == KeyOf[rl.behindProxy][conn]
           IN  /\ \A other \in LimiterKeys \ {key} :
                    /\ (other \in DOMAIN rl'.limiters) = (other \in DOMAIN rl.limiters)
                    /\ OwnPermits(other)' = OwnPermits(other)
               /\ (sent'.op = "next") = (OwnPermits(key) >= 1)
               /\ key \notin DOMAIN rl.limiters =>
                    /\ sent'.op = "next"
                    /\ rl'.limiters[key].limiter = Limiter(rl.burst - 1, now)]_vars
\* One key has used up its burst within this instant, and then the first
\* request of another key was admitted on a bucket of its own.
C39_Witness ==
    /\ sent # NoResponse
    /\ sent.op = "next"
    /\ LET key == KeyOf[rl.behindProxy][sent.req.conn]
       IN  /\ Cardinality({g \in grants : g.op = "next" /\ g.by = key}) = 1
           /\ rl.limiters[key].limiter = Limiter(rl.burst - 1, now)
           /\ \E other \in DOMAIN rl.limiters \ {key} :
                /\ Cardinality(AdmittedAt(other, now)) = rl.burst
                /\ rl.limiters[other].limiter = Limiter(0, now)
\* A key is rejected on its empty bucket after another key's first request
\* was admitted in the same instant.
C39_WitnessRejected ==
    /\ sent # NoResponse
    /\ sent.op = "rate_limit"
    /\ LET key == KeyOf[rl.behindProxy][sent.req.conn]
       IN  /\ rl.limiters[key].limiter = Limiter(0, now)
           /\ \E other \in DOMAIN rl.limiters \ {key} :
                /\ Cardinality(AdmittedAt(other, now)) = 1
                /\ rl.limiters[other].limiter = Limiter(rl.burst - 1, now)

(* ---- the vector index and the chunks ---- *)
\* No tool call is under way.
Quiescent == \A i \in Workers : w[i].op = "idle"
\* The ids for which delete_chunk has returned deleted=true.
DeletedChunks == {g.by : g \in {x \in grants : x.op = "delete_chunk" /\ x.bound = TRUE}}
\* C40: whenever no store_chunk, update_chunk or delete_chunk call is under
\* way, every id in the vector index is the id of a stored chunk; and once
\* delete_chunk has returned deleted=true for an id, the index does not hold
\* that id.
C40_IndexHoldsOnlyStoredChunks ==
    /\ Quiescent => DOMAIN index \subseteq DOMAIN chunks
    /\ \A id \in DeletedChunks : id \notin DOMAIN index

====
